---- MODULE Spec2Model ----
(***************************************************************************)
(* A model of newscli's readable-content extraction (newscli/article.py). *)
(*                                                                         *)
(* Text is modelled as a sequence of symbols.  A symbol is either a single *)
(* character (" ", "\t", "\n", "a", ":" ...) or a lexeme that stands for a  *)
(* fixed run of characters ("title", "URL Source", a 40 character word,     *)
(* ...).  Width gives the number of characters a symbol stands for, so     *)
(* every length the code computes with len() is computed from the content. *)
(***************************************************************************)
EXTENDS Integers, Sequences, FiniteSets, TLC

VARIABLES
    pc,         \* position inside extract_readable_text
    html,       \* the document handed to extract_readable_text
    base_url,   \* its base_url argument (None when absent)
    soup,       \* the parsed document, after boilerplate removal
    title,      \* the local variable title
    container,  \* the element chosen by _best_container, as its position in soup
    images,     \* the local variable images
    byline,     \* the local variable byline
    text,       \* the local variable text
    result,     \* the returned ArticleContent, once pc = "done"
    ct_pc,      \* position of the text-normalizer run: "start", "once", "twice"
    ct_in,      \* the string handed to _clean_text
    ct_once,    \* _clean_text(ct_in)
    ct_twice,   \* _clean_text(_clean_text(ct_in))
    kt_pc,      \* position inside _kitty_image_escape
    kt_data,    \* its argument data, as the number of its bytes
    kt_cols,    \* its argument cols
    kt_rows,    \* its argument rows
    kt_b64,     \* the local variable b64, as the number of its characters
    kt_chunks,  \* the local variable chunks, each as the number of its characters
    kt_parts,   \* the local variable parts
    kt_esc,     \* the returned string, once kt_pc = "done"
    fh_pc,      \* position inside fetch_html
    fh_url,     \* its argument url
    fh_env,     \* the value of the environment variable NEWSCLI_MIRROR_ON_403
    fh_headers, \* the local variable headers
    fh_sent,    \* the requests made through client.get so far, in order
    fh_got,     \* what each of them ended in, in the same order
    fh_status,  \* the status code of the HTTPStatusError being handled
    fh_result,  \* what the call returned or raised
    ff_pc,      \* position inside fetch_feed
    ff_url,     \* its argument url
    ff_headers, \* the local variable headers
    ff_attempt, \* the loop variable attempt
    ff_last_exc,\* the local variable last_exc
    ff_sent,    \* the requests made through client.get so far, in order
    ff_got,     \* what each of them ended in, in the same order
    ff_result   \* what the call returned or raised

ex_vars == <<pc, html, base_url, soup, title, container, images, byline, text, result>>

ct_vars == <<ct_pc, ct_in, ct_once, ct_twice>>

kt_vars == <<kt_pc, kt_data, kt_cols, kt_rows, kt_b64, kt_chunks, kt_parts, kt_esc>>

vars == <<pc, html, base_url, soup, title, container, images, byline, text, result,
          ct_pc, ct_in, ct_once, ct_twice,
          kt_pc, kt_data, kt_cols, kt_rows, kt_b64, kt_chunks, kt_parts, kt_esc,
          fh_pc, fh_url, fh_env, fh_headers, fh_sent, fh_got, fh_status, fh_result,
          ff_pc, ff_url, ff_headers, ff_attempt, ff_last_exc, ff_sent, ff_got, ff_result>>

fh_vars == <<fh_pc, fh_url, fh_env, fh_headers, fh_sent, fh_got, fh_status, fh_result>>

ff_vars == <<ff_pc, ff_url, ff_headers, ff_attempt, ff_last_exc, ff_sent, ff_got, ff_result>>

(***************************************************************************)
(* Strings                                                                 *)
(***************************************************************************)

\* Longest string handed to the text normalizer on its own.
MaxCleanLen == 5

\* What str.strip() / str.rstrip() remove, and what the regex class \s matches.
Whitespace == {" ", "\t", "\n"}

\* The regex class [ \t].
Horizontal == {" ", "\t"}

\* All sequences over S of length at most n.
StringsUpTo(S, n) == UNION {[1..k -> S] : k \in 0..n}

RECURSIVE LStrip(_)
LStrip(s) ==
    IF s = <<>> THEN <<>>
    ELSE IF Head(s) \in Whitespace THEN LStrip(Tail(s)) ELSE s

RECURSIVE RStrip(_)
RStrip(s) ==
    IF s = <<>> THEN <<>>
    ELSE IF s[Len(s)] \in Whitespace THEN RStrip(SubSeq(s, 1, Len(s) - 1)) ELSE s

Strip(s) == LStrip(RStrip(s))

\* TRUE iff the maximal run of [ \t] that starts at position i of s is
\* followed by a newline (so i >= 1 lies in a match of [ \t]+\n).
RECURSIVE RunEndsInNewline(_, _)
RunEndsInNewline(s, i) ==
    IF i > Len(s) THEN FALSE
    ELSE IF s[i] \in Horizontal THEN RunEndsInNewline(s, i + 1)
    ELSE s[i] = "\n"

\* re.sub(r"[ \t]\n", "\n", s): the same substitution without the "+", which
\* removes only the last blank before each newline.
RECURSIVE DropOneTrailingBlank(_, _)
DropOneTrailingBlank(s, i) ==
    IF i > Len(s) THEN <<>>
    ELSE IF s[i] \in Horizontal /\ i < Len(s) /\ s[i + 1] = "\n"
         THEN DropOneTrailingBlank(s, i + 1)
         ELSE <<s[i]>> \o DropOneTrailingBlank(s, i + 1)

\* re.sub(r"[ \t]+\n", "\n", s), from position i on.
RECURSIVE DropTrailingBlanks(_, _)
DropTrailingBlanks(s, i) ==
    IF i > Len(s) THEN <<>>
    ELSE IF s[i] \in Horizontal /\ RunEndsInNewline(s, i)
         THEN DropTrailingBlanks(s, i + 1)
         ELSE <<s[i]>> \o DropTrailingBlanks(s, i + 1)

\* The number of consecutive newlines of s from position i on.
RECURSIVE NewlineRun(_, _)
NewlineRun(s, i) ==
    IF i > Len(s) \/ s[i] # "\n" THEN 0 ELSE 1 + NewlineRun(s, i + 1)

\* re.sub(r"\n{3,}", "\n\n", s), from position i on.
RECURSIVE CollapseNewlines(_, _)
CollapseNewlines(s, i) ==
    IF i > Len(s) THEN <<>>
    ELSE LET n == NewlineRun(s, i) IN
         IF n >= 3 THEN <<"\n", "\n">> \o CollapseNewlines(s, i + n)
         ELSE IF n >= 1 THEN SubSeq(s, i, i + n - 1) \o CollapseNewlines(s, i + n)
         ELSE <<s[i]>> \o CollapseNewlines(s, i + 1)

\* _clean_text with the first substitution written without its "+".
CleanTextOneBlank(s) ==
    Strip(CollapseNewlines(DropOneTrailingBlank(s, 1), 1))

\* _clean_text
CleanText(s) ==
    Strip(CollapseNewlines(DropTrailingBlanks(s, 1), 1))

(***************************************************************************)
(* More strings: widths, joining, searching                                *)
(***************************************************************************)

\* Python's None where a string is expected.
None == <<"#None">>

\* bool(s) of an optional string.
Truthy(s) == s # None /\ s # <<>>

\* The number of characters a symbol stands for.
Width(c) ==
    CASE c = "w20" -> 20
      [] c = "w40" -> 40
      [] c = "w120" -> 120
      [] c = "title" -> 5
      [] c = "TITLE" -> 5
      [] c = "URL Source" -> 10
      [] c = "url source" -> 10
      [] c = "Published Time" -> 14
      [] c = "Markdown Content" -> 16
      [] c = "(untitled)" -> 10
      [] OTHER -> 1

\* len(s)
RECURSIVE StrLen(_)
StrLen(s) == IF s = <<>> THEN 0 ELSE Width(Head(s)) + StrLen(Tail(s))

\* sep.join(parts)
RECURSIVE Join(_, _)
Join(parts, sep) ==
    IF parts = <<>> THEN <<>>
    ELSE IF Len(parts) = 1 THEN parts[1]
    ELSE parts[1] \o sep \o Join(Tail(parts), sep)

\* The set of elements of a sequence.
Range(seq) == {seq[i] : i \in DOMAIN seq}

(***************************************************************************)
(* The document tree (what BeautifulSoup(sanitized, "html.parser") builds) *)
(***************************************************************************)

\* An attribute dictionary, as the set of its <<name, value>> pairs: the
\* given attributes whose value is not None.
Attrs(given) == {<<k, given[k]>> : k \in {a \in DOMAIN given : given[a] # None}}

NoAttrs == {}

\* A node is <<name, attributes, content>>: the content of an element and
\* of the document root is the sequence of its children, the content of a
\* text node and of a comment node is its string.  NoNode stands for the
\* None of a find() without a hit.
Elem(tag, given, kids) == <<tag, Attrs(given), kids>>
El(tag, kids) == <<tag, NoAttrs, kids>>
Txt(s) == <<"#text", NoAttrs, s>>
Cmt(s) == <<"#comment", NoAttrs, s>>
Document(kids) == <<"[document]", NoAttrs, kids>>
NoNode == <<"#none", NoAttrs, <<>>>>

StringNodes == {"#text", "#comment"}

Tag(n) == n[1]
AttrsOf(n) == n[2]
Kids(n) == IF n[1] \in StringNodes THEN <<>> ELSE n[3]
TextOf(n) == n[3]

\* tag.get(name)
Get(n, name) ==
    IF \E a \in AttrsOf(n) : a[1] = name
    THEN (CHOOSE a \in AttrsOf(n) : a[1] = name)[2] ELSE None

\* node.descendants: every node below n, in document order.
RECURSIVE Descendants(_), DescendantsOfAll(_)
Descendants(n) == DescendantsOfAll(Kids(n))
DescendantsOfAll(kids) ==
    IF kids = <<>> THEN <<>>
    ELSE <<Head(kids)>> \o Descendants(Head(kids)) \o DescendantsOfAll(Tail(kids))

\* node.find_all(names)
FindAll(n, names) == LET Named(d) == Tag(d) \in names IN SelectSeq(Descendants(n), Named)

\* The first element of a sequence of nodes, NoNode when there is none.
First(nodes) == IF nodes = <<>> THEN NoNode ELSE Head(nodes)

\* node.find(name)
Find(n, name) == First(FindAll(n, {name}))

\* node.get_text(sep, strip=True): the stripped, non-empty strings below n,
\* joined by sep.
StrippedStrings(n) ==
    LET IsText(d) == Tag(d) = "#text" /\ Strip(TextOf(d)) # <<>>
        texts == SelectSeq(Descendants(n), IsText)
    IN  [i \in DOMAIN texts |-> Strip(TextOf(texts[i]))]

GetText(n, sep) == Join(StrippedStrings(n), sep)

\* tag.string: the single string below a tag, None when there is not exactly
\* one child on the way down.
RECURSIVE StringOf(_)
StringOf(n) ==
    IF Len(Kids(n)) # 1 THEN None
    ELSE IF Tag(Kids(n)[1]) \in StringNodes THEN TextOf(Kids(n)[1])
    ELSE StringOf(Kids(n)[1])

\* The tags removed with everything below them.
BoilerplateTags ==
    {"script", "style", "noscript", "header", "footer", "nav", "aside", "form", "iframe"}

\* The document as it is parsed, with nothing taken out.
KeepBoilerplate(n) == n

\* The document with its comments extracted and its boilerplate subtrees
\* decomposed.
RECURSIVE RemoveBoilerplate(_), RemoveBoilerplateOfAll(_)
RemoveBoilerplate(n) ==
    IF Tag(n) \in StringNodes THEN n ELSE <<Tag(n), AttrsOf(n), RemoveBoilerplateOfAll(Kids(n))>>
RemoveBoilerplateOfAll(kids) ==
    IF kids = <<>> THEN <<>>
    ELSE IF Tag(Head(kids)) = "#comment" \/ Tag(Head(kids)) \in BoilerplateTags
         THEN RemoveBoilerplateOfAll(Tail(kids))
         ELSE <<RemoveBoilerplate(Head(kids))>> \o RemoveBoilerplateOfAll(Tail(kids))

(***************************************************************************)
(* Image URLs                                                              *)
(***************************************************************************)

\* The cap on the images list (urls[:5]).
MaxImages == 5

\* What a failed call raises instead of returning.
ValueError == <<"#ValueError">>

\* Symbols that open a URL with a scheme and a network location, the ones
\* whose network location has an unmatched "[" among them (urlsplit raises
\* ValueError("Invalid IPv6 URL") on those).
HttpPrefixes == {"https://cdn/", "https://site/", "http://site/", "http://[bad/", "https://[bad/"}
BadNetlocPrefixes == {"http://[bad/", "https://[bad/"}

\* Symbols that open a protocol-relative URL, and what "https:" + them is.
ProtocolRelative == {"//cdn/", "//[bad/"}
WithHttps(c) == IF c = "//cdn/" THEN "https://cdn/" ELSE "https://[bad/"

\* Symbols that open a data: URI; the scheme of a URI is case-insensitive.
DataSchemes == {"data:", "DATA:"}

\* Symbols matched by _SKIP_IMAGE_RE (compiled with re.I).
ShareWords == {"share-button", "Share-Button", "wa-button"}

\* Symbols matched by \.(svg|ico) and by \.(jpe?g|png|gif|webp|bmp|tiff),
\* both case-insensitive, and by (\?|#).
VectorExts == {".svg", ".SVG", ".ico"}
ImageExts == {".png", ".jpg", ".PNG"}
QueryOrFragment == {"?v", "#f"}

\* re.search(r"\s", s)
HasWhitespace(s) == \E i \in DOMAIN s : s[i] \in Whitespace

\* _SKIP_IMAGE_RE.search(s)
MatchesSkip(s) == \E i \in DOMAIN s : s[i] \in ShareWords

\* re.search(ext + r"(\?|#|$)", s) for the extensions in exts
HasExtension(s, exts) ==
    \E i \in DOMAIN s :
        /\ s[i] \in exts
        /\ (i = Len(s) \/ s[i + 1] \in QueryOrFragment)

\* The position of the last "/" of s, 0 when it has none.
RECURSIVE LastSlash(_)
LastSlash(s) ==
    IF s = <<>> THEN 0
    ELSE IF s[Len(s)] = "/" THEN Len(s) ELSE LastSlash(SubSeq(s, 1, Len(s) - 1))

\* The position of the first query or fragment symbol of s, Len(s) + 1 when
\* it has none.
RECURSIVE PathEnd(_, _)
PathEnd(s, i) ==
    IF i > Len(s) \/ s[i] \in QueryOrFragment THEN i ELSE PathEnd(s, i + 1)

\* urllib.parse.urljoin(base, url) for a non-empty absolute http(s) base:
\* urlsplit raises on a malformed network location of either argument; a url
\* with a scheme is returned as it is; a relative one is resolved against
\* the directory of the base path.
UrlJoin(base, url) ==
    IF Head(base) \in BadNetlocPrefixes \/ Head(url) \in BadNetlocPrefixes
    THEN ValueError
    ELSE IF Head(url) \in HttpPrefixes \cup DataSchemes THEN url
    ELSE LET end == PathEnd(base, 2)
             bpath == SubSeq(base, 2, end - 1)
         IN  IF Head(url) = "?v" THEN <<Head(base)>> \o bpath \o url
             ELSE IF Head(url) = "#f" THEN SubSeq(base, 1, PathEnd(base, end + 1) - 1) \o url
             ELSE IF Head(url) = "/" THEN <<Head(base)>> \o Tail(url)
             ELSE <<Head(base)>> \o SubSeq(bpath, 1, LastSlash(bpath)) \o url

\* _normalize_image_url: the normalized URL, None when the URL is rejected,
\* ValueError when urljoin raises.
NormalizeImageUrl(raw_url, base) ==
    LET url == Strip(IF raw_url = None THEN <<>> ELSE raw_url)
        abs == IF url # <<>> /\ Head(url) \in ProtocolRelative
               THEN <<WithHttps(Head(url))>> \o Tail(url) ELSE url
    IN  IF url = <<>> \/ Head(url) = "data:" \/ HasWhitespace(url) THEN None
        ELSE IF MatchesSkip(abs) THEN None
        ELSE IF HasExtension(abs, VectorExts) THEN None
        ELSE IF Truthy(base) THEN UrlJoin(base, abs)
        ELSE abs

\* _dedupe: the first occurrence of every URL, in order.
RECURSIVE Dedupe(_)
Dedupe(urls) ==
    IF urls = <<>> THEN <<>>
    ELSE LET rest == Dedupe(SubSeq(urls, 1, Len(urls) - 1))
             last == urls[Len(urls)]
         IN  IF last \in Range(rest) THEN rest ELSE Append(rest, last)

\* seq[:n]
Take(seq, n) == SubSeq(seq, 1, IF Len(seq) < n THEN Len(seq) ELSE n)

\* s.split(sep) for a one-symbol separator: the pieces between separators.
RECURSIVE SplitOn(_, _)
SplitOn(s, seps) ==
    IF \A i \in DOMAIN s : s[i] \notin seps THEN <<s>>
    ELSE LET at == CHOOSE i \in DOMAIN s :
                       s[i] \in seps /\ \A j \in 1..(i - 1) : s[j] \notin seps
         IN  <<SubSeq(s, 1, at - 1)>> \o SplitOn(SubSeq(s, at + 1, Len(s)), seps)

\* str.lower() of an attribute value, symbol by symbol.
LowerSym(c) ==
    CASE c = "OG:IMAGE" -> "og:image"
      [] c = "Twitter:Image" -> "twitter:image"
      [] c = "TITLE" -> "title"
      [] c = "TRUE" -> "true"
      [] c = "URL Source" -> "url source"
      [] c = "Published Time" -> "published time"
      [] c = "Markdown Content" -> "markdown content"
      [] OTHER -> c

Lower(s) == [i \in DOMAIN s |-> LowerSym(s[i])]

\* The attribute values int() accepts, and the numbers they spell; int()
\* raises ValueError on every other value.
Numerals == {<<"0">>, <<"1">>, <<"119">>, <<"120">>, <<"600">>}
IntOf(s) ==
    CASE s = <<"0">> -> 0
      [] s = <<"1">> -> 1
      [] s = <<"119">> -> 119
      [] s = <<"120">> -> 120
      [] s = <<"600">> -> 600

\* The smallest declared side that is not treated as an icon.
MinImageSide == 120

\* _is_small_image
IsSmallImage(img) ==
    LET w == Get(img, "width")
        h == Get(img, "height")
        width == IF Truthy(w) THEN IntOf(w) ELSE 0
        height == IF Truthy(h) THEN IntOf(h) ELSE 0
    IN  IF (Truthy(w) /\ w \notin Numerals) \/ (Truthy(h) /\ h \notin Numerals) THEN FALSE
        ELSE width # 0 /\ height # 0 /\ (width < MinImageSide \/ height < MinImageSide)

\* a or b, for optional strings
Or(a, b) == IF Truthy(a) THEN a ELSE b

\* The candidate URLs of a srcset value: the first word of every non-blank
\* comma-separated part.
SrcsetCandidates(srcset) ==
    LET parts == SplitOn(srcset, {","})
        NonBlank(part) == Strip(part) # <<>>
        kept == SelectSeq(parts, NonBlank)
    IN  [i \in DOMAIN kept |-> SplitOn(Strip(kept[i]), {" "})[1]]

\* _pick_img_source
PickImgSource(img) ==
    LET src == Or(Get(img, "src"), Or(Get(img, "data-src"),
                 Or(Get(img, "data-original"), Get(img, "data-lazy-src"))))
        srcset == Or(Get(img, "srcset"), Get(img, "data-srcset"))
    IN  IF Truthy(src) THEN src
        ELSE IF Truthy(srcset)
             THEN LET candidates == SrcsetCandidates(srcset)
                  IN  IF candidates # <<>> THEN candidates[Len(candidates)] ELSE src
             ELSE src

\* _extract_images_from_html.add without the "norm not in urls" test.
AddAlways(urls, norm) == IF Truthy(norm) THEN Append(urls, norm) ELSE urls

\* _extract_images_from_html.add, once the URL is normalized
Add(urls, norm) ==
    IF Truthy(norm) /\ norm \notin Range(urls) THEN Append(urls, norm) ELSE urls

\* add(raw) for every raw URL in turn: the list built, and whether an add
\* raised (the later ones are then never made).
RECURSIVE AddAll(_, _, _)
AddAll(urls, raws, base) ==
    IF raws = <<>> THEN [raised |-> FALSE, urls |-> urls]
    ELSE LET norm == NormalizeImageUrl(Head(raws), base)
         IN  IF norm = ValueError THEN [raised |-> TRUE, urls |-> urls]
             ELSE AddAll(Add(urls, norm), Tail(raws), base)

\* The property and name values the cover-image loops accept.
OgImageProps == {<<"og:image">>, <<"og:image:url">>, <<"og:image:secure_url">>}
TwitterImageNames == {<<"twitter:image">>, <<"twitter:image:src">>}

\* re.compile(r"^og:image", re.I) and re.compile(r"^twitter:image", re.I)
\* against an attribute value.
StartsWithOgImage(v) ==
    Truthy(v) /\ Head(v) \in {"og:image", "og:image:url", "og:image:secure_url",
                              "og:image:width", "OG:IMAGE"}
StartsWithTwitterImage(v) ==
    Truthy(v) /\ Head(v) \in {"twitter:image", "twitter:image:src", "Twitter:Image"}

\* The raw URLs of the four sources of images: the og:image metas, the
\* twitter:image metas, the image_src link and the img elements of the
\* container, each in document order.
ImageSources(doc, cont) ==
    LET IsOg(n) == /\ Tag(n) = "meta"
                   /\ StartsWithOgImage(Get(n, "property"))
                   /\ Lower(Get(n, "property")) \in OgImageProps
                   /\ Truthy(Get(n, "content"))
        IsTw(n) == /\ Tag(n) = "meta"
                   /\ StartsWithTwitterImage(Get(n, "name"))
                   /\ Lower(Get(n, "name")) \in TwitterImageNames
                   /\ Truthy(Get(n, "content"))
        IsLink(n) == /\ Tag(n) = "link"
                     /\ Get(n, "rel") # None
                     /\ \E i \in DOMAIN Get(n, "rel") : Get(n, "rel")[i] \in {"image_src", "IMAGE_SRC"}
        IsImg(n) == Tag(n) = "img" /\ ~IsSmallImage(n) /\ Truthy(PickImgSource(n))
        all == Descendants(doc)
        ogs == SelectSeq(all, IsOg)
        tws == SelectSeq(all, IsTw)
        link_src == First(SelectSeq(all, IsLink))
        imgs == SelectSeq(Descendants(cont), IsImg)
    IN  << [i \in DOMAIN ogs |-> Get(ogs[i], "content")],
           [i \in DOMAIN tws |-> Get(tws[i], "content")],
           IF link_src # NoNode /\ Truthy(Get(link_src, "href"))
           THEN <<Get(link_src, "href")>> ELSE <<>>,
           [i \in DOMAIN imgs |-> PickImgSource(imgs[i])] >>

\* The raw URLs with the img elements of the container handed over first.
RawImageUrlsInlineFirst(doc, cont) ==
    LET from == ImageSources(doc, cont) IN from[4] \o from[1] \o from[2] \o from[3]

\* The raw URLs handed to add, in the order the code hands them over.
RawImageUrls(doc, cont) ==
    LET from == ImageSources(doc, cont) IN from[1] \o from[2] \o from[3] \o from[4]

\* _extract_images_from_html: urls[:5], unless an add raised.
ExtractImagesFromHtml(doc, cont, base) ==
    LET added == AddAll(<<>>, RawImageUrls(doc, cont), base)
    IN  [raised |-> added.raised, urls |-> Take(added.urls, MaxImages)]

(***************************************************************************)
(* Container selection                                                     *)
(***************************************************************************)

\* Class and id words matched by positive_re and by negative_re.
PositiveWords == {"content", "story", "comment-body", "main-menu"}
NegativeWords == {"sidebar", "related", "comment-body", "main-menu"}

\* The thresholds of _best_container and of _candidate_score.
SemanticMinScore == 5
GenericMinScore == 3
LongParagraph == 40

\* An optional string as a string: value or "".
OrEmpty(v) == IF v = None THEN <<>> ELSE v

\* The link density of a node as the fraction it leaves to the score:
\* max(0.1, 1.0 - ld) as num/den, with ld = min(1.0, len(link_text) /
\* max(1, len(text))) and ld = 1.0 for a node without text.
LinkFactor(node) ==
    LET txt == GetText(node, <<" ">>)
        anchors == FindAll(node, {"a"})
        link_text == Join([i \in DOMAIN anchors |-> GetText(anchors[i], <<" ">>)], <<" ">>)
        t == StrLen(txt)
        a == StrLen(link_text)
    IN  IF txt = <<>> THEN [num |-> 1, den |-> 10]
        ELSE IF a = 0 THEN [num |-> 1, den |-> 1]
        ELSE IF 10 * (t - a) > t THEN [num |-> t - a, den |-> t]
        ELSE [num |-> 1, den |-> 10]

\* The sum of a sequence of numbers.
RECURSIVE Sum(_)
Sum(ns) == IF ns = <<>> THEN 0 ELSE Head(ns) + Sum(Tail(ns))

\* The lengths of the texts of the paragraphs of a node.
ParagraphLengths(node) ==
    LET paragraphs == FindAll(node, {"p"})
    IN  [i \in DOMAIN paragraphs |-> StrLen(GetText(paragraphs[i], <<" ">>))]

\* f"{classes} {node_id}"
Ident(node) == OrEmpty(Get(node, "class")) \o <<" ">> \o OrEmpty(Get(node, "id"))

\* A hundred times the score _candidate_score has before it is scaled by the
\* link density.
UnscaledScore(node) ==
    LET ident == Ident(node)
        lens == ParagraphLengths(node)
        IsLong(n) == n >= LongParagraph
        long_paras == SelectSeq(lens, IsLong)
    IN  Sum(lens) + 200 * Len(long_paras)
        + (IF Tag(node) \in {"article", "main"} THEN 1000 ELSE 0)
        + (IF \E i \in DOMAIN ident : ident[i] \in PositiveWords THEN 600 ELSE 0)
        - (IF \E i \in DOMAIN ident : ident[i] \in NegativeWords THEN 800 ELSE 0)

\* _candidate_score: a hundred times the score, as the exact fraction
\* num/den (den > 0).
CandidateScore(node) ==
    LET f == LinkFactor(node)
    IN  [num |-> UnscaledScore(node) * f.num, den |-> f.den]

\* score >= k and a > b for scores given as fractions
ScoreAtLeast(score, k) == score.num >= 100 * k * score.den
ScoreGreater(a, b) == a.num * b.den > b.num * a.den

\* A node of a document is referred to by its position among the
\* document's descendants in document order, the document itself by 0.
NodeAt(doc, i) == IF i = 0 THEN doc ELSE Descendants(doc)[i]

\* The positions of the elements with one of the names, in document order.
PositionsOf(doc, names) ==
    LET all == Descendants(doc) IN {i \in DOMAIN all : Tag(all[i]) \in names}

\* The least element of a non-empty set of numbers
Least(ns) == CHOOSE i \in ns : \A j \in ns : i <= j

\* The position of doc.find(name), 0 when it is None.
PositionOf(doc, names) ==
    IF PositionsOf(doc, names) = {} THEN 0 ELSE Least(PositionsOf(doc, names))

\* The last of the candidates whose score no other candidate exceeds.
BestOfLast(doc, candidates) ==
    LET Score(i) == CandidateScore(NodeAt(doc, i))
        best == {i \in candidates : \A j \in candidates : ~ScoreGreater(Score(j), Score(i))}
    IN  CHOOSE i \in best : \A j \in best : j <= i

\* candidates.sort(key=score, reverse=True)[0]: the first of the candidates
\* whose score no other candidate exceeds (the sort is stable).
BestOf(doc, candidates) ==
    LET Score(i) == CandidateScore(NodeAt(doc, i))
    IN  Least({i \in candidates : \A j \in candidates : ~ScoreGreater(Score(j), Score(i))})

\* soup.body or soup
BodyOrSoup(doc) == PositionOf(doc, {"body"})

\* _best_container: the position of the chosen element
BestContainer(doc) ==
    LET semantic == IF PositionOf(doc, {"article"}) # 0 THEN PositionOf(doc, {"article"})
                    ELSE PositionOf(doc, {"main"})
        candidates == PositionsOf(doc, {"article", "main", "section", "div"})
    IN  IF semantic # 0 /\ ScoreAtLeast(CandidateScore(NodeAt(doc, semantic)), SemanticMinScore)
        THEN semantic
        ELSE IF candidates = {} THEN BodyOrSoup(doc)
        ELSE IF ScoreAtLeast(CandidateScore(NodeAt(doc, BestOf(doc, candidates))), GenericMinScore)
             THEN BestOf(doc, candidates)
             ELSE BodyOrSoup(doc)

(***************************************************************************)
(* Title, byline and body of an HTML document                              *)
(***************************************************************************)

\* The title of a document without a title.
Untitled == <<"(untitled)">>

\* The body length under which the description meta replaces the body, and
\* the shortest paragraph, list item or quote kept as a block.
ThinLimit == 120
MinBlockLen == 20
MinBlocks == 3

\* soup.find("meta", property=value) or soup.find("meta", attrs={"name": value})
FindMeta(doc, byProperty, byName) ==
    LET HasProperty(n) == Tag(n) = "meta" /\ Get(n, "property") = <<byProperty>>
        HasName(n) == Tag(n) = "meta" /\ Get(n, "name") = <<byName>>
        first == First(SelectSeq(Descendants(doc), HasProperty))
    IN  IF first # NoNode THEN first ELSE First(SelectSeq(Descendants(doc), HasName))

\* The title after the og:title step, after the h1 step and after the
\* <title> step of the title heuristics.
TitleFromOg(doc) ==
    LET og_title == FindMeta(doc, "og:title", "og:title")
    IN  IF og_title # NoNode /\ Truthy(Get(og_title, "content"))
        THEN Strip(Get(og_title, "content")) ELSE <<>>

TitleFromH1(doc, sofar) ==
    LET h1 == Find(doc, "h1")
    IN  IF h1 # NoNode /\ GetText(h1, <<>>) # <<>> THEN GetText(h1, <<>>) ELSE sofar

TitleFromTitleTag(doc, sofar) ==
    LET t == Find(doc, "title")
    IN  IF sofar = <<>> /\ t # NoNode /\ Truthy(StringOf(t)) THEN Strip(StringOf(t)) ELSE sofar

\* The title heuristics of extract_readable_text
ResolvedTitle(doc) == TitleFromTitleTag(doc, TitleFromH1(doc, TitleFromOg(doc)))

\* Class words matched by (byline|author|writer), case-insensitive.
BylineWords == {"byline", "Author"}

\* node.find(attrs={"class": re.compile(r"(byline|author|writer)", re.I)})
FindByline(node) ==
    LET Matches(n) == /\ Get(n, "class") # None
                      /\ \E i \in DOMAIN Get(n, "class") : Get(n, "class")[i] \in BylineWords
    IN  First(SelectSeq(Descendants(node), Matches))

\* The byline taken from the whole document before the container is looked at.
ResolvedBylineFromDocument(doc, cont) ==
    LET by == IF FindByline(doc) # NoNode THEN FindByline(doc) ELSE FindByline(cont)
    IN  IF by # NoNode /\ GetText(by, <<" ">>) # <<>> THEN GetText(by, <<" ">>) ELSE None

\* The byline heuristics of extract_readable_text
ResolvedByline(doc, cont) ==
    LET by == IF FindByline(cont) # NoNode THEN FindByline(cont) ELSE FindByline(doc)
    IN  IF by # NoNode /\ GetText(by, <<" ">>) # <<>> THEN GetText(by, <<" ">>) ELSE None

\* The blocks kept when headings have to be long enough as well.
BlocksByLength(cont) ==
    LET els == FindAll(cont, {"p", "h2", "h3", "li", "blockquote"})
        Kept(el) == StrLen(GetText(el, <<" ">>)) >= MinBlockLen
        kept == SelectSeq(els, Kept)
    IN  [i \in DOMAIN kept |-> GetText(kept[i], <<" ">>)]

\* The blocks kept from the container, in document order.
Blocks(cont) ==
    LET els == FindAll(cont, {"p", "h2", "h3", "li", "blockquote"})
        Kept(el) == LET txt == GetText(el, <<" ">>)
                    IN  /\ txt # <<>>
                        /\ (Tag(el) \in {"h2", "h3"} \/ StrLen(txt) >= MinBlockLen)
        kept == SelectSeq(els, Kept)
    IN  [i \in DOMAIN kept |-> GetText(kept[i], <<" ">>)]

\* The body before the thin-content step: the cleaned blocks, or the cleaned
\* text of the whole container when fewer than three blocks are kept.
AssembledText(cont) ==
    CleanText(IF Len(Blocks(cont)) < MinBlocks THEN GetText(cont, <<"\n">>)
              ELSE Join(Blocks(cont), <<"\n", "\n">>))

\* The body after the thin-content step.
WithThinFallback(doc, body) ==
    LET og_desc == FindMeta(doc, "og:description", "description")
        desc == Strip(Get(og_desc, "content"))
    IN  IF /\ StrLen(body) < ThinLimit
           /\ og_desc # NoNode
           /\ Truthy(Get(og_desc, "content"))
           /\ StrLen(desc) > StrLen(body)
        THEN desc ELSE body

(***************************************************************************)
(* The plain-text path                                                     *)
(***************************************************************************)

\* The number of leading lines scanned for a title line (lines[:8]).
TitleScanLines == 8

\* Control characters (0x00-0x08, 0x0b-0x0c, 0x0e-0x1f) as symbols.
ControlChars == {"^G"}

\* re.sub(r"[\x00-\x08\x0b-\x0c\x0e-\x1f]", "", s)
StripControl(s) == LET Printable(c) == c \notin ControlChars IN SelectSeq(s, Printable)

\* "<" not in s and ">" not in s
LooksPlain(s) == \A i \in DOMAIN s : s[i] \notin {"<", ">"}

\* s.splitlines(): the pieces between newlines, without an empty last piece.
SplitLines(s) ==
    LET pieces == SplitOn(s, {"\n"})
    IN  IF pieces[Len(pieces)] = <<>> THEN SubSeq(pieces, 1, Len(pieces) - 1) ELSE pieces

\* The words the case-insensitive regexes accept.
TitleWords == {"title", "TITLE"}
MetadataWords == {"URL Source", "url source", "Published Time", "Markdown Content"}

\* What follows "<word> :" at the start of a line, after optional blanks
\* before the word and before the colon; NoMatch when the line does not start
\* that way.
NoMatch == <<"#NoMatch">>
AfterKey(ln, words) ==
    LET a == LStrip(ln)
        b == IF a # <<>> /\ Head(a) \in words THEN LStrip(Tail(a)) ELSE <<>>
    IN  IF b # <<>> /\ Head(b) = ":" THEN <<"#">> \o Tail(b) ELSE NoMatch

\* re.match(r"^\s*title\s*:\s*(.+)$", ln, re.I): group 1, NoMatch without a
\* match.  \s* gives back its last blank when nothing else is left for (.+).
TitleMatch(ln) ==
    LET k == AfterKey(ln, TitleWords)
        rest == Tail(k)
    IN  IF k = NoMatch \/ rest = <<>> THEN NoMatch
        ELSE IF LStrip(rest) # <<>> THEN LStrip(rest)
        ELSE <<rest[Len(rest)]>>

\* re.match(r"^\s*(url source|published time|markdown content)\s*:", ln, re.I)
IsMetadataLine(ln) == AfterKey(ln, MetadataWords) # NoMatch

\* The index of the first line that matches the title regex, however far
\* down the text it is, 0 when none does.
RECURSIVE FirstTitleLineAnywhere(_, _)
FirstTitleLineAnywhere(lines, idx) ==
    IF idx > Len(lines) THEN 0
    ELSE IF TitleMatch(lines[idx]) # NoMatch THEN idx
    ELSE FirstTitleLineAnywhere(lines, idx + 1)

\* The index of the first of the first TitleScanLines lines that matches the
\* title regex, 0 when none does.
RECURSIVE FirstTitleLine(_, _)
FirstTitleLine(lines, idx) ==
    IF idx > Len(lines) \/ idx > TitleScanLines THEN 0
    ELSE IF TitleMatch(lines[idx]) # NoMatch THEN idx
    ELSE FirstTitleLine(lines, idx + 1)

\* The lines of the plain text, right-stripped.
PlainLines(s) == LET raw == SplitLines(s) IN [i \in DOMAIN raw |-> RStrip(raw[i])]

\* The title found on the plain-text path.
PlainTitle(s) ==
    LET lines == PlainLines(s)
        idx == FirstTitleLine(lines, 1)
    IN  IF idx # 0 /\ Strip(TitleMatch(lines[idx])) # <<>>
        THEN Strip(TitleMatch(lines[idx])) ELSE Untitled

\* The lines with the title line blanked and every other line kept, joined
\* by newlines.
FilteredTextKeepingMetadata(s) ==
    LET lines == PlainLines(s)
        idx == FirstTitleLine(lines, 1)
        blanked == [i \in DOMAIN lines |-> IF i = idx THEN <<>> ELSE lines[i]]
    IN  Join(blanked, <<"\n">>)

\* filtered_text: the lines with the title line blanked and the metadata
\* lines dropped, joined by newlines.
FilteredText(s) ==
    LET lines == PlainLines(s)
        idx == FirstTitleLine(lines, 1)
        blanked == [i \in DOMAIN lines |-> IF i = idx THEN <<>> ELSE lines[i]]
        Body(ln) == ~IsMetadataLine(ln)
    IN  Join(SelectSeq(blanked, Body), <<"\n">>)

\* re.findall(r"https?://[^\s)]+", s), from position i on.
RECURSIVE UrlEnd(_, _)
UrlEnd(s, i) ==
    IF i > Len(s) \/ s[i] \in Whitespace \cup {")"} THEN i ELSE UrlEnd(s, i + 1)

RECURSIVE FindUrls(_, _)
FindUrls(s, i) ==
    IF i > Len(s) THEN <<>>
    ELSE IF s[i] \in HttpPrefixes
         THEN <<SubSeq(s, i, UrlEnd(s, i + 1) - 1)>> \o FindUrls(s, UrlEnd(s, i + 1))
         ELSE FindUrls(s, i + 1)

\* _extract_images_from_plain_text
ExtractImagesFromPlainText(s) ==
    LET found == FindUrls(s, 1)
        norms == [i \in DOMAIN found |-> NormalizeImageUrl(found[i], None)]
        IsImage(u) == Truthy(u) /\ HasExtension(u, ImageExts)
    IN  Take(Dedupe(SelectSeq(norms, IsImage)), MaxImages)

(***************************************************************************)
(* extract_readable_text, step by step                                     *)
(***************************************************************************)

\* A document handed to extract_readable_text: a string without tags is
\* given by its characters, a string with tags by the tree html.parser
\* builds from it.
PlainInput(s) == [tags |-> FALSE, chars |-> s, dom |-> Document(<<>>)]
HtmlInput(kids) == [tags |-> TRUE, chars |-> <<"<">>, dom |-> Document(kids)]

\* The tree built from the sanitized document.
ParseTree(doc) ==
    IF doc.tags THEN doc.dom ELSE Document(<<Txt(StripControl(doc.chars))>>)

\* title or "(untitled)", with the sentinel left out.
FinalTitleAsIs(t) == t

\* title or "(untitled)"
FinalTitle(t) == IF t = <<>> THEN Untitled ELSE t

ArticleContent(t, b, x, i) == [title |-> t, byline |-> b, text |-> x, images |-> i]

NoResult == ArticleContent(<<>>, None, <<>>, <<>>)

\* The variables of the normalizer run, while extract_readable_text runs.
CleanIdle ==
    /\ ct_pc = "idle"
    /\ ct_in = <<>>
    /\ ct_once = <<>>
    /\ ct_twice = <<>>

\* The variables of a call of _kitty_image_escape, while none is made.
KittyIdle ==
    /\ kt_pc = "idle"
    /\ kt_data = 0
    /\ kt_cols = 0
    /\ kt_rows = 0
    /\ kt_b64 = 0
    /\ kt_chunks = <<>>
    /\ kt_parts = <<>>
    /\ kt_esc = <<>>

\* The variables of a call of fetch_html, while none is made.
FetchIdle ==
    /\ fh_pc = "idle"
    /\ fh_url = <<>>
    /\ fh_env = <<>>
    /\ fh_headers = <<>>
    /\ fh_sent = <<>>
    /\ fh_got = <<>>
    /\ fh_status = 0
    /\ fh_result = "none"

\* The variables of a call of fetch_feed, while none is made.
FeedIdle ==
    /\ ff_pc = "idle"
    /\ ff_url = <<>>
    /\ ff_headers = <<>>
    /\ ff_attempt = 0
    /\ ff_last_exc = None
    /\ ff_sent = <<>>
    /\ ff_got = <<>>
    /\ ff_result = None

Classify ==
    /\ pc = "start"
    /\ pc' = IF ~html.tags /\ LooksPlain(StripControl(html.chars)) THEN "plain" ELSE "parse"
    /\ UNCHANGED <<html, base_url, soup, title, container, images, byline, text, result>>
    /\ UNCHANGED <<ct_vars, kt_vars, fh_vars, ff_vars>>

ExtractPlainText ==
    /\ pc = "plain"
    /\ LET sanitized == StripControl(html.chars) IN
       /\ title' = PlainTitle(sanitized)
       /\ byline' = None
       /\ text' = CleanText(FilteredText(sanitized))
       /\ images' = ExtractImagesFromPlainText(FilteredText(sanitized))
    /\ result' = ArticleContent(title', byline', text', images')
    /\ pc' = "done"
    /\ UNCHANGED <<html, base_url, soup, container>>
    /\ UNCHANGED <<ct_vars, kt_vars, fh_vars, ff_vars>>

ParseHtml ==
    /\ pc = "parse"
    /\ soup' = RemoveBoilerplate(ParseTree(html))
    /\ pc' = "title"
    /\ UNCHANGED <<html, base_url, title, container, images, byline, text, result>>
    /\ UNCHANGED <<ct_vars, kt_vars, fh_vars, ff_vars>>

ResolveTitle ==
    /\ pc = "title"
    /\ title' = ResolvedTitle(soup)
    /\ pc' = "container"
    /\ UNCHANGED <<html, base_url, soup, container, images, byline, text, result>>
    /\ UNCHANGED <<ct_vars, kt_vars, fh_vars, ff_vars>>

SelectContainer ==
    /\ pc = "container"
    /\ container' = BestContainer(soup)
    /\ pc' = "images"
    /\ UNCHANGED <<html, base_url, soup, title, images, byline, text, result>>
    /\ UNCHANGED <<ct_vars, kt_vars, fh_vars, ff_vars>>

CollectImages ==
    /\ pc = "images"
    /\ LET got == ExtractImagesFromHtml(soup, NodeAt(soup, container), base_url) IN
       /\ images' = IF got.raised THEN images ELSE got.urls
       /\ pc' = IF got.raised THEN "raised" ELSE "byline"
    /\ UNCHANGED <<html, base_url, soup, title, container, byline, text, result>>
    /\ UNCHANGED <<ct_vars, kt_vars, fh_vars, ff_vars>>

ResolveByline ==
    /\ pc = "byline"
    /\ byline' = ResolvedByline(soup, NodeAt(soup, container))
    /\ pc' = "blocks"
    /\ UNCHANGED <<html, base_url, soup, title, container, images, text, result>>
    /\ UNCHANGED <<ct_vars, kt_vars, fh_vars, ff_vars>>

AssembleBody ==
    /\ pc = "blocks"
    /\ text' = AssembledText(NodeAt(soup, container))
    /\ pc' = "thin"
    /\ UNCHANGED <<html, base_url, soup, title, container, images, byline, result>>
    /\ UNCHANGED <<ct_vars, kt_vars, fh_vars, ff_vars>>

ThinFallbackAndReturn ==
    /\ pc = "thin"
    /\ text' = WithThinFallback(soup, text)
    /\ result' = ArticleContent(FinalTitle(title), byline, text', images)
    /\ pc' = "done"
    /\ UNCHANGED <<html, base_url, soup, title, container, images, byline>>
    /\ UNCHANGED <<ct_vars, kt_vars, fh_vars, ff_vars>>

Next ==
    \/ Classify
    \/ ExtractPlainText
    \/ ParseHtml
    \/ ResolveTitle
    \/ SelectContainer
    \/ CollectImages
    \/ ResolveByline
    \/ AssembleBody
    \/ ThinFallbackAndReturn

(***************************************************************************)
(* The documents extract_readable_text is run on                           *)
(***************************************************************************)

\* Blank lines between the first and the second line of a plain text, and
\* the number of image URLs after the first one in a plain text or container.
MaxPad == 8
MaxMoreUrls == 6

\* Lines of a mirror's plain text.
PlainLineChoices ==
    { <<>>,
      <<"title", ":", " ", "a">>,
      <<" ", "TITLE", " ", ":", "b", " ">>,
      <<"title", ":">>,
      <<"URL Source", ":", " ", "https://site/", "a">>,
      <<"\t", "url source", " ", ":">>,
      <<"a", " ", "URL Source", ":", " ", "b">>,
      <<"a", "^G", " ", "\t">>,
      <<"b", ">">> }

\* n blank lines
BlankLines(n) == [i \in 1..n |-> <<>>]

\* first line, pad blank lines, then one or two more lines
PlainDocs ==
    { PlainInput(Join(<<first>> \o BlankLines(pad) \o more, <<"\n">>)) :
        first \in PlainLineChoices, pad \in 0..MaxPad,
        more \in UNION {[1..k -> PlainLineChoices] : k \in 1..2} }

\* Distinct well-formed image URLs.
GoodUrls ==
    << <<"https://cdn/", "a", ".png">>, <<"https://cdn/", "b", ".png">>,
       <<"https://cdn/", "c", ".jpg">>, <<"https://cdn/", "d", ".png", "?v">>,
       <<"https://cdn/", "e", ".png">>, <<"https://cdn/", "f", ".PNG">>,
       <<"https://cdn/", "g", ".png">>, <<"https://cdn/", "h", ".png">> >>

\* The first n of them
SomeGoodUrls(n) == SubSeq(GoodUrls, 1, n)

\* URLs as they occur in a plain text.
PlainUrlChoices ==
    { <<"https://cdn/", "a", ".png">>,
      <<"https://cdn/", "b", ".png", "#f">>,
      <<"https://cdn/", "share-button", ".png">>,
      <<"https://cdn/", "a", ".svg">>,
      <<"https://cdn/", "a">>,
      <<"http://[bad/", "a", ".png">>,
      <<"(", "https://cdn/", "a", ".png", ")">> }

\* a line of image URLs: one of the choices, then the first n good ones
PlainImageDocs ==
    { PlainInput(<<"title", ":", "a", "\n">> \o Join(<<first>> \o SomeGoodUrls(n), sep)) :
        first \in PlainUrlChoices, n \in 0..MaxMoreUrls, sep \in {<<" ">>, <<"\n">>} }

\* Elements as they are written in the documents below.
Meta(property, content) == Elem("meta", [property |-> <<property>>, content |-> content], <<>>)
MetaNamed(name, content) == Elem("meta", [name |-> <<name>>, content |-> content], <<>>)
P(s) == El("p", <<Txt(s)>>)
H1(s) == El("h1", <<Txt(s)>>)
Img(src) == Elem("img", [src |-> src], <<>>)
Page(head, body) == HtmlInput(<<El("html", <<El("head", head), El("body", body)>>)>>)

\* Two paragraphs of an article.
TwoParagraphs == <<P(<<"w40", " ", "a">>), P(<<"w40", " ", "b">>)>>

\* The head of a page: how og:title is given, and how <title> is written.
OgTitleChoices ==
    { <<>>,
      <<Meta("og:title", <<>>)>>,
      <<Meta("og:title", <<" ">>)>>,
      <<Meta("og:title", <<" ", "O", " ">>)>>,
      <<MetaNamed("og:title", <<"N">>)>>,
      <<Meta("og:title", None), MetaNamed("og:title", <<"N">>)>> }

TitleTagChoices ==
    { <<>>,
      <<El("title", <<>>)>>,
      <<El("title", <<Txt(<<" ", "T", " ">>)>>)>>,
      <<El("title", <<Txt(<<" ">>)>>)>>,
      <<El("title", <<Txt(<<"T">>), El("b", <<Txt(<<"U">>)>>)>>)>> }

\* The headings at the top of the article.
H1Choices ==
    { <<>>,
      <<El("h1", <<>>)>>,
      <<H1(<<" ", "H", " ">>)>>,
      <<El("h1", <<Txt(<<" ">>)>>), H1(<<"J">>)>>,
      <<H1(<<"H">>), H1(<<"J">>)>>,
      <<El("header", <<H1(<<"X">>)>>)>>,
      <<El("header", <<H1(<<"X">>)>>), H1(<<"H">>)>>,
      <<El("h1", <<Txt(<<"H", " ">>), El("em", <<Txt(<<" ", "I">>)>>)>>)>> }

TitleDocs ==
    { Page(og \o tt, <<El("article", h1 \o TwoParagraphs)>>) :
        og \in OgTitleChoices, tt \in TitleTagChoices, h1 \in H1Choices }

\* Image URLs as they are written in attributes.
RawUrlChoices ==
    { <<>>,
      <<"https://cdn/", "a", ".png">>,
      <<" ", "https://cdn/", "a", ".png", "\n">>,
      <<"//cdn/", "a", ".png">>,
      <<"a", ".png">>,
      <<"/", "n", "/", "a", ".png">>,
      <<"?v">>,
      <<"data:", "a">>,
      <<"DATA:", "a">>,
      <<"https://cdn/", "Share-Button", ".png">>,
      <<"https://cdn/", "a", ".svg">>,
      <<"https://cdn/", "a", ".ico", "?v">>,
      <<"https://cdn/", "a", " ", "b">>,
      <<"http://[bad/", "a", ".png">>,
      <<"//[bad/", "a", ".png">> }

\* The content of the og:image meta of a page (None: no content attribute).
OgImageChoices ==
    { None, <<"https://cdn/", "a", ".png">>, <<"a", ".png">>, <<"https://cdn/", "z", ".svg">> }

\* The base URLs handed over with a page.
BaseChoices ==
    { None,
      <<"https://site/", "n", "/", "s">>,
      <<"https://site/", "share-button", "/", "s", ".svg">> }

\* n elements <img src=...> for the first n good URLs
RECURSIVE GoodImgs(_)
GoodImgs(n) == IF n = 0 THEN <<>> ELSE Append(GoodImgs(n - 1), Img(GoodUrls[n]))

ImageDocs ==
    { Page(<<Meta("og:image", og)>>,
           <<El("article", TwoParagraphs \o <<Img(first)>> \o GoodImgs(n))>>) :
        og \in OgImageChoices, first \in RawUrlChoices, n \in 0..MaxMoreUrls }

\* The longest description and the longest loose text written out symbol by
\* symbol.
MaxDescLen == 4
MaxLooseLen == 2

TextAlphabet == {"a", " ", "\n"}

\* The content of the description meta.
DescChoices ==
    StringsUpTo(TextAlphabet, MaxDescLen)
    \cup { <<"a", "\n", "\n", "\n", "b">>, <<"w120">>, <<"w120", "\t", "\n", "a">> }

\* How the description is given in the head.
DescMetaChoices ==
    { <<>> } \cup { <<Meta("og:description", d)>> : d \in DescChoices }
    \cup { <<MetaNamed("description", <<"a", " ", "\n", "b">>)>>,
           <<Meta("og:description", None), MetaNamed("description", <<"w120">>)>> }

\* The body of a page: loose text in a div, paragraphs, or nothing.
BodyChoices ==
    { <<El("div", <<Txt(t)>>)>> : t \in StringsUpTo(TextAlphabet, MaxLooseLen) }
    \cup { <<>>,
           <<El("article", <<P(<<"w20", "\n", "\n", "\n", "a">>), P(<<"w20", " ", "\n", "b">>),
                             El("h2", <<Txt(<<"c">>)>>)>>)>>,
           <<El("article", <<P(<<"w120">>), P(<<"a">>)>>)>>,
           <<El("div", <<Txt(<<"a", " ">>), El("p", <<Txt(<<"\n", "b">>)>>), Txt(<<"c">>)>>)>>,
           <<El("section", <<P(<<"w120">>), El("li", <<Txt(<<"w20">>)>>),
                             El("blockquote", <<Txt(<<"w20", "a">>)>>), P(<<"w20">>)>>)>> }

TextDocs == { Page(d, b) : d \in DescMetaChoices, b \in BodyChoices }

\* Pages whose images come from the other sources, whose byline sits inside
\* or outside the container, and whose containers compete.
OtherDocs ==
    { Page(<<MetaNamed("twitter:image", <<"https://cdn/", "t", ".png">>),
             Meta("OG:IMAGE", <<"https://cdn/", "o", ".png">>),
             Meta("og:image:width", <<"600">>),
             Elem("link", [rel |-> <<"image_src">>, href |-> <<"/", "l", ".png">>], <<>>)>>,
           <<El("article", TwoParagraphs \o
                 <<Elem("img", [src |-> <<"a", ".png">>, width |-> <<"1">>, height |-> <<"1">>], <<>>),
                   Elem("img", [src |-> <<"b", ".png">>, width |-> <<"119">>], <<>>),
                   Elem("img", [src |-> <<"c", ".png">>, width |-> <<"auto">>, height |-> <<"1">>], <<>>),
                   Elem("img", [srcset |-> <<"d", ".png", " ", "1x", ",", " ", "e", ".png", " ", "2x">>], <<>>),
                   Elem("img", [width |-> <<"600">>], <<>>),
                   Elem("span", [class |-> <<"byline">>], <<Txt(<<"B">>)>>)>>)>>),
      Page(<<>>,
           <<Elem("div", [class |-> <<"sidebar">>], <<El("a", <<P(<<"w40">>)>>)>>),
             Elem("div", [class |-> <<"content">>], TwoParagraphs \o <<Img(<<"a", ".png">>)>>),
             Elem("p", [class |-> <<"Author">>], <<Txt(<<" ">>)>>)>>),
      Page(<<>>,
           <<El("nav", <<El("a", <<Txt(<<"w40">>)>>)>>),
             Cmt(<<"c">>),
             Elem("main", [id |-> <<"main-menu">>], <<El("a", <<Txt(<<"w120">>)>>)>>),
             Elem("p", [class |-> <<"Author">>], <<Txt(<<"B">>)>>)>>),
      HtmlInput(<<P(<<"w20">>), Elem("img", [src |-> None], <<>>)>>) }

\* Elements that compete for being the container: semantic and generic ones,
\* with and without hints, paragraphs and links, and one inside another.
CandidateChoices ==
    { Elem("article", [class |-> <<"sidebar">>], <<>>),
      El("article", <<P(<<"w40">>)>>),
      El("main", <<P(<<"w40", " ", "m">>)>>),
      El("main", <<Txt(<<"a">>)>>),
      Elem("div", [class |-> <<"content">>],
           <<P(<<"w120">>), P(<<"w120", "a">>), P(<<"w120", "b">>), P(<<"w120", "c">>)>>),
      El("div", <<P(<<"w120">>)>>),
      El("div", <<P(<<"w40">>)>>),
      El("section", <<P(<<"w120", " ", "s">>)>>),
      El("div", <<El("a", <<P(<<"w120">>)>>)>>),
      El("div", <<El("section", <<P(<<"w120", "n">>)>>)>>) }

\* The longest row of competing elements in a body.
MaxCandidates == 3

ContainerDocs ==
    { Page(<<>>, row) : row \in UNION {[1..k -> CandidateChoices] : k \in 1..MaxCandidates} }
    \cup { HtmlInput(<<c>>) : c \in CandidateChoices }

\* A candidate whose whole text is link text, next to one with the same name,
\* hints and paragraphs and no link.
HintChoices ==
    { [class |-> None, id |-> None], [class |-> <<"content">>, id |-> None],
      [class |-> <<"sidebar">>, id |-> None], [class |-> None, id |-> <<"main-menu">>] }

ParagraphChoices ==
    { <<P(<<"a">>)>>, <<P(<<"w40">>)>>, <<P(<<"w120">>), P(<<"w20", " ", "b">>)>> }

ScoreDocs ==
    { Page(<<>>, <<Elem(tag, hint, <<El("a", paras)>>), Elem(tag, hint, paras)>>) :
        tag \in {"div", "section", "article"}, hint \in HintChoices, paras \in ParagraphChoices }

\* What an article is made of: short and blank headings, long and short
\* paragraphs, a list item around a paragraph, and loose text.
BlockChoices ==
    { El("h2", <<Txt(<<"c">>)>>),
      El("h3", <<Txt(<<" ">>)>>),
      P(<<" ", "w20", "p", "\n">>),
      P(<<"a">>),
      El("li", <<P(<<"w20", "l">>)>>),
      El("div", <<Txt(<<"x">>)>>) }

\* The longest row of them in an article.
MaxBlockRow == 4

BlockDocs ==
    { Page(<<>>, <<El("article", row)>>) :
        row \in UNION {[1..k -> BlockChoices] : k \in 1..MaxBlockRow} }

\* Byline elements before and inside the article.
BylineChoices ==
    { <<>>,
      <<Elem("span", [class |-> <<"byline">>], <<Txt(<<" ">>)>>)>>,
      <<Elem("span", [class |-> <<"x", " ", "Author">>],
             <<Txt(<<" ", "By", " ">>), El("b", <<Txt(<<"Ann">>)>>)>>)>>,
      <<Elem("span", [class |-> <<"content">>], <<Txt(<<"C">>)>>),
        Elem("p", [class |-> <<"byline">>], <<Txt(<<"D">>)>>)>> }

BylineDocs ==
    { Page(<<>>, before \o <<El("article", TwoParagraphs \o inside)>>) :
        before \in BylineChoices, inside \in BylineChoices }

\* What stands inside a comment or a boilerplate element: a heading, a long
\* paragraph, a byline and an image, or text alone.
JunkChoices ==
    { <<Txt(<<"X">>)>>,
      <<H1(<<"X">>), P(<<"w120", " ", "y">>),
        Elem("span", [class |-> <<"byline">>], <<Txt(<<"Z">>)>>),
        Img(<<"https://cdn/", "q", ".png">>)>> }

\* The comment or boilerplate element around it.
JunkElements ==
    { El(tag, junk) : tag \in BoilerplateTags, junk \in JunkChoices }
    \cup { Cmt(<<"X">>), El("div", <<Cmt(<<"w120", " ", "y">>)>>) }

\* What the article has of its own.
ArticleChoices ==
    { TwoParagraphs,
      <<H1(<<"H">>)>> \o TwoParagraphs
        \o <<Elem("span", [class |-> <<"byline">>], <<Txt(<<"B">>)>>),
             Img(<<"https://cdn/", "a", ".png">>)>> }

\* The junk before, inside and after the article.
BoilerplateDocs ==
    { Page(<<>>, <<j, El("article", own)>>) : j \in JunkElements, own \in ArticleChoices }
    \cup { Page(<<>>, <<El("article", <<j>> \o own)>>) : j \in JunkElements, own \in ArticleChoices }
    \cup { Page(<<>>, <<El("article", own), j>>) : j \in JunkElements, own \in ArticleChoices }

HtmlDocs ==
    TitleDocs \cup TextDocs \cup OtherDocs \cup ContainerDocs \cup ScoreDocs \cup BlockDocs
    \cup BylineDocs \cup BoilerplateDocs

Init ==
    /\ pc = "start"
    /\ \/ html \in {PlainInput(<<>>)} \cup PlainDocs \cup PlainImageDocs \cup HtmlDocs
          /\ base_url = None
       \/ html \in ImageDocs /\ base_url \in BaseChoices
       \/ html \in OtherDocs /\ base_url \in BaseChoices
    /\ soup = NoNode
    /\ title = <<>>
    /\ container = 0
    /\ images = <<>>
    /\ byline = None
    /\ text = <<>>
    /\ result = NoResult
    /\ CleanIdle
    /\ KittyIdle
    /\ FetchIdle
    /\ FeedIdle

Spec == Init /\ [][Next]_vars

(***************************************************************************)
(* The text normalizer applied twice to a string                           *)
(***************************************************************************)

CleanAlphabet == {"a", " ", "\t", "\n"}

ExtractIdle ==
    /\ pc = "idle"
    /\ html = PlainInput(<<>>)
    /\ base_url = None
    /\ soup = NoNode
    /\ title = <<>>
    /\ container = 0
    /\ images = <<>>
    /\ byline = None
    /\ text = <<>>
    /\ result = NoResult

CleanInit ==
    /\ ExtractIdle
    /\ KittyIdle
    /\ FetchIdle
    /\ FeedIdle
    /\ ct_pc = "start"
    /\ ct_in \in StringsUpTo(CleanAlphabet, MaxCleanLen)
    /\ ct_once = <<>>
    /\ ct_twice = <<>>

CleanFirst ==
    /\ ct_pc = "start"
    /\ ct_once' = CleanText(ct_in)
    /\ ct_pc' = "once"
    /\ UNCHANGED <<ct_in, ct_twice>>
    /\ UNCHANGED <<ex_vars, kt_vars, fh_vars, ff_vars>>

CleanSecond ==
    /\ ct_pc = "once"
    /\ ct_twice' = CleanText(ct_once)
    /\ ct_pc' = "twice"
    /\ UNCHANGED <<ct_in, ct_once>>
    /\ UNCHANGED <<ex_vars, kt_vars, fh_vars, ff_vars>>

CleanNext == CleanFirst \/ CleanSecond

SpecClean == CleanInit /\ [][CleanNext]_vars

\* C10: the text normalizer is idempotent: a second pass over a normalized
\* string changes nothing.
CleanTextIdempotent == ct_pc = "twice" => ct_twice = ct_once

\* A string with a run of blanks before a newline and three newlines in a row
\* has been normalized twice, and the first pass changed it.
CleanTextIdempotentWitness ==
    /\ ct_pc = "twice"
    /\ ct_once # ct_in
    /\ ct_once # <<>>
    /\ \E i \in 1..(Len(ct_in) - 2) :
          ct_in[i] \in Horizontal /\ ct_in[i + 1] \in Horizontal /\ ct_in[i + 2] = "\n"

(***************************************************************************)
(* _kitty_image_escape (newscli/app.py)                                    *)
(*                                                                         *)
(* The image bytes and their base64 text are given by their lengths.  The  *)
(* returned string is a sequence of tokens <<name, number>>: the start     *)
(* sequence ESC _ G, the parameters, the semicolon, the payload with the   *)
(* number of its characters, and the terminator ESC \.                     *)
(***************************************************************************)

\* chunk_size
ChunkSize == 4096

\* Image sizes: whole KiB up to MaxKiB plus up to MaxOddBytes bytes.
MaxKiB == 7
MaxOddBytes == 3

\* len(base64.b64encode(data)) for n bytes: four characters for every three
\* bytes, the last group padded.
Base64Len(n) == 4 * ((n + 2) \div 3)

\* The lengths of b64[i : i + chunk_size] for i in range(i, len(b64), chunk_size)
RECURSIVE ChunksFrom(_, _)
ChunksFrom(i, len) ==
    IF i >= len THEN <<>>
    ELSE <<IF len - i < ChunkSize THEN len - i ELSE ChunkSize>> \o ChunksFrom(i + ChunkSize, len)

KittyStart == <<"ESC_G", 0>>
KittyEnd == <<"ESC\\", 0>>

\* f"\x1b_G{params};{chunk}\x1b\\" for chunk i (from 0) of n
KittyPart(i, n, chunk, cols, rows) ==
    LET more == IF i < n - 1 THEN 1 ELSE 0
        params == IF i = 0 THEN << <<"a=T,t=d", 0>>, <<"c", cols>>, <<"r", rows>>, <<"m", more>> >>
                  ELSE << <<"m", more>> >>
    IN  <<KittyStart>> \o params \o << <<";", 0>>, <<"payload", chunk>>, KittyEnd >>

KittyInit ==
    /\ ExtractIdle
    /\ CleanIdle
    /\ FetchIdle
    /\ FeedIdle
    /\ kt_pc = "start"
    /\ kt_data \in {k * 1024 + r : k \in 0..MaxKiB, r \in 0..MaxOddBytes}
    /\ kt_cols \in {20, 60}
    /\ kt_rows \in {4, 12}
    /\ kt_b64 = 0
    /\ kt_chunks = <<>>
    /\ kt_parts = <<>>
    /\ kt_esc = <<>>

KittyEncode ==
    /\ kt_pc = "start"
    /\ kt_b64' = Base64Len(kt_data)
    /\ kt_pc' = "encoded"
    /\ UNCHANGED <<kt_data, kt_cols, kt_rows, kt_chunks, kt_parts, kt_esc>>
    /\ UNCHANGED <<ex_vars, ct_vars, fh_vars, ff_vars>>

KittySplit ==
    /\ kt_pc = "encoded"
    /\ kt_chunks' = ChunksFrom(0, kt_b64)
    /\ kt_pc' = "loop"
    /\ UNCHANGED <<kt_data, kt_cols, kt_rows, kt_b64, kt_parts, kt_esc>>
    /\ UNCHANGED <<ex_vars, ct_vars, fh_vars, ff_vars>>

KittyAppendPart ==
    /\ kt_pc = "loop"
    /\ Len(kt_parts) < Len(kt_chunks)
    /\ kt_parts' = Append(kt_parts, KittyPart(Len(kt_parts), Len(kt_chunks),
                                              kt_chunks[Len(kt_parts) + 1], kt_cols, kt_rows))
    /\ UNCHANGED <<kt_pc, kt_data, kt_cols, kt_rows, kt_b64, kt_chunks, kt_esc>>
    /\ UNCHANGED <<ex_vars, ct_vars, fh_vars, ff_vars>>

KittyReturn ==
    /\ kt_pc = "loop"
    /\ Len(kt_parts) = Len(kt_chunks)
    /\ kt_esc' = Join(kt_parts, <<>>)
    /\ kt_pc' = "done"
    /\ UNCHANGED <<kt_data, kt_cols, kt_rows, kt_b64, kt_chunks, kt_parts>>
    /\ UNCHANGED <<ex_vars, ct_vars, fh_vars, ff_vars>>

KittyNext == KittyEncode \/ KittySplit \/ KittyAppendPart \/ KittyReturn

SpecKitty == KittyInit /\ [][KittyNext]_vars

\* The places of the start sequences and of the terminators in the returned
\* string.
KittyStarts == {i \in DOMAIN kt_esc : kt_esc[i] = KittyStart}
KittyEnds == {i \in DOMAIN kt_esc : kt_esc[i] = KittyEnd}

\* The tokens from i to j are one chunk: a start sequence, parameters with
\* m = more among them, a semicolon, a payload of at most 4096 characters and
\* the terminator.
IsKittyChunk(i, j, more) ==
    /\ kt_esc[i] = KittyStart
    /\ kt_esc[j] = KittyEnd
    /\ j - i >= 4
    /\ kt_esc[j - 1][1] = "payload" /\ kt_esc[j - 1][2] <= ChunkSize
    /\ kt_esc[j - 2] = <<";", 0>>
    /\ kt_esc[j - 3] = <<"m", more>>
    /\ \A k \in (i + 1)..(j - 4) : kt_esc[k][1] \in {"a=T,t=d", "c", "r"}

\* C18: the returned string contains the start sequence, ends with the
\* terminator, and is a row of chunks of at most 4096 payload characters,
\* each in its own start sequence and terminator, with m=1 in every chunk but
\* the last and m=0 in the last.
KittyEscapeWrapped ==
    kt_pc = "done" =>
        /\ KittyStarts # {}
        /\ kt_esc # <<>> /\ kt_esc[Len(kt_esc)] = KittyEnd
        /\ Cardinality(KittyStarts) = Cardinality(KittyEnds)
        /\ \A i \in KittyStarts :
               LET j == Least({e \in KittyEnds : e > i})
               IN  /\ IsKittyChunk(i, j, IF j = Len(kt_esc) THEN 0 ELSE 1)
                   /\ i = 1 \/ (i - 1) \in KittyEnds

(***************************************************************************)
(* fetch_html (newscli/article.py)                                         *)
(*                                                                         *)
(* A URL is <<scheme, host labels ..., path>>; a header value is a         *)
(* sequence of symbols.  What the server answers to a request is an input  *)
(* of the step that makes the request.                                     *)
(***************************************************************************)

\* DEFAULT_HEADERS
DefaultHeadersWithBrotli ==
    [ UserAgent |-> <<"Chrome/120", "X11; Linux x86_64">>,
      Accept |-> <<"text/html", ",", "*/*">>,
      AcceptLanguage |-> <<"en-SG">>,
      AcceptEncoding |-> <<"gzip", ",", " ", "deflate", ",", " ", "br">>,
      Connection |-> <<"keep-alive">> ]

DefaultHeaders ==
    [ UserAgent |-> <<"Chrome/120", "X11; Linux x86_64">>,
      Accept |-> <<"text/html", ",", "*/*">>,
      AcceptLanguage |-> <<"en-SG">>,
      AcceptEncoding |-> <<"gzip", ",", " ", "deflate">>,
      Connection |-> <<"keep-alive">> ]

\* The User-Agent of the retry after a 403 or 429.
AlternateUserAgent == <<"Chrome/120", "Windows NT 10.0; Win64; x64">>

\* mirror_on_block_enabled, for a value of NEWSCLI_MIRROR_ON_403
MirrorOnBlockEnabled(env) == Lower(Strip(env)) \in {<<"1">>, <<"true">>, <<"yes">>, <<"on">>}

\* parsed.netloc.endswith(suffix): the host is the URL without its scheme
\* and its path.
NetlocEndsWith(url, suffix) == Len(url) >= 3 /\ url[Len(url) - 1] = suffix

\* headers, once the referer is added
HeadersFor(url) ==
    IF NetlocEndsWith(url, "mothership.sg")
    THEN ("Referer" :> <<"https://mothership.sg/">>) @@ DefaultHeaders
    ELSE IF NetlocEndsWith(url, "straitstimes.com")
         THEN ("Referer" :> <<"https://www.straitstimes.com/">>) @@ DefaultHeaders
         ELSE DefaultHeaders

\* retry_headers
RetryHeaders(headers) == [headers EXCEPT !["UserAgent"] = AlternateUserAgent]

\* "https://r.jina.ai/http://" + url.removeprefix("https://").removeprefix("http://")
MirrorUrl(url) ==
    LET a == IF url # <<>> /\ Head(url) = "https://" THEN Tail(url) ELSE url
        b == IF a # <<>> /\ Head(a) = "http://" THEN Tail(a) ELSE a
    IN  <<"https://r.jina.ai/http://">> \o b

\* What a request can end in: a page served as text/html, markup served
\* under another content type, anything else served under another content
\* type, a read timeout, another transport error, or an error status.
Successes == {"html", "markup", "other"}
EveryErrorStatus == {403, 404, 429, 500}
BlockedStatuses == {403, 429}
ErrorStatuses == {403, 404, 429, 500}

\* The URLs fetched and the values of the environment variable.
UrlChoices ==
    { <<"https://", "mothership.sg", "/a">>,
      <<"http://", "www.", "straitstimes.com", "/a">>,
      <<"https://", "example.com", "/a">>,
      <<"http://", "example.com", "/a">> }

EnvChoices == { <<>>, <<"1">>, <<" ", "TRUE", "\n">>, <<"0">> }

FetchInit ==
    /\ ExtractIdle
    /\ CleanIdle
    /\ KittyIdle
    /\ FeedIdle
    /\ fh_pc = "start"
    /\ fh_url \in UrlChoices
    /\ fh_env \in EnvChoices
    /\ fh_headers = <<>>
    /\ fh_sent = <<>>
    /\ fh_got = <<>>
    /\ fh_status = 0
    /\ fh_result = "none"

\* A request through client.get
Request(url, headers) == [url |-> url, headers |-> headers]

\* What a request ended in: a response of one of the three kinds, an
\* exception of the transport, or an error status met by raise_for_status.
Got(kind, status) == [kind |-> kind, status |-> status]

\* client.get(url, headers=headers) and what it ended in
Send(url, headers, kind, status) ==
    /\ fh_sent' = Append(fh_sent, Request(url, headers))
    /\ fh_got' = Append(fh_got, Got(kind, status))

\* The call ends: it returns the text of a response or raises.
FetchEnds(how) ==
    /\ fh_pc' = "done"
    /\ fh_result' = how

FetchBuildHeaders ==
    /\ fh_pc = "start"
    /\ fh_headers' = HeadersFor(fh_url)
    /\ fh_pc' = "first"
    /\ UNCHANGED <<fh_url, fh_env, fh_sent, fh_got, fh_status, fh_result>>
    /\ UNCHANGED <<ex_vars, ct_vars, kt_vars, ff_vars>>

\* The original request and what follows from its outcome.
FetchFirst ==
    /\ fh_pc = "first"
    /\ \/ \E ok \in {"html", "markup"} :
             /\ Send(fh_url, fh_headers, ok, 0)
             /\ FetchEnds("text") /\ UNCHANGED fh_status
       \/ /\ Send(fh_url, fh_headers, "other", 0)
          /\ FetchEnds("ValueError") /\ UNCHANGED fh_status
       \/ /\ Send(fh_url, fh_headers, "ReadTimeout", 0)
          /\ fh_pc' = "timeout" /\ UNCHANGED <<fh_status, fh_result>>
       \/ /\ Send(fh_url, fh_headers, "TransportError", 0)
          /\ FetchEnds("TransportError") /\ UNCHANGED fh_status
       \/ \E status \in ErrorStatuses :
             /\ Send(fh_url, fh_headers, "status", status)
             /\ fh_status' = status
             /\ IF status \in BlockedStatuses
                THEN fh_pc' = "blocked" /\ UNCHANGED fh_result
                ELSE FetchEnds("HTTPStatusError")
    /\ UNCHANGED <<fh_url, fh_env, fh_headers>>
    /\ UNCHANGED <<ex_vars, ct_vars, kt_vars, ff_vars>>

\* The retry after a read timeout.
FetchTimeoutRetry ==
    /\ fh_pc = "timeout"
    /\ \/ \E ok \in Successes :
             Send(fh_url, fh_headers, ok, 0) /\ FetchEnds("text")
       \/ Send(fh_url, fh_headers, "ReadTimeout", 0) /\ FetchEnds("ReadTimeout")
       \/ Send(fh_url, fh_headers, "TransportError", 0) /\ FetchEnds("TransportError")
       \/ \E status \in ErrorStatuses :
             Send(fh_url, fh_headers, "status", status) /\ FetchEnds("HTTPStatusError")
    /\ UNCHANGED <<fh_url, fh_env, fh_headers, fh_status>>
    /\ UNCHANGED <<ex_vars, ct_vars, kt_vars, ff_vars>>

\* The retry with the alternate User-Agent after a 403 or 429.
FetchAlternateRetry ==
    /\ fh_pc = "blocked"
    /\ LET retry_headers == RetryHeaders(fh_headers)
       IN  \/ \E ok \in Successes :
                 /\ Send(fh_url, retry_headers, ok, 0)
                 /\ FetchEnds("text") /\ UNCHANGED fh_status
           \/ /\ Send(fh_url, retry_headers, "ReadTimeout", 0)
              /\ FetchEnds("ReadTimeout") /\ UNCHANGED fh_status
           \/ /\ Send(fh_url, retry_headers, "TransportError", 0)
              /\ FetchEnds("TransportError") /\ UNCHANGED fh_status
           \/ \E status \in ErrorStatuses :
                 /\ Send(fh_url, retry_headers, "status", status)
                 /\ fh_status' = status
                 /\ IF /\ status \in BlockedStatuses
                       /\ (NetlocEndsWith(fh_url, "mothership.sg") \/ MirrorOnBlockEnabled(fh_env))
                    THEN fh_pc' = "mirror" /\ UNCHANGED fh_result
                    ELSE FetchEnds("HTTPStatusError")
    /\ UNCHANGED <<fh_url, fh_env, fh_headers>>
    /\ UNCHANGED <<ex_vars, ct_vars, kt_vars, ff_vars>>

\* The request to the mirror.
FetchMirror ==
    /\ fh_pc = "mirror"
    /\ LET mirror_url == MirrorUrl(fh_url)
       IN  \/ \E ok \in Successes :
                 Send(mirror_url, fh_headers, ok, 0) /\ FetchEnds("text")
           \/ Send(mirror_url, fh_headers, "ReadTimeout", 0) /\ FetchEnds("ReadTimeout")
           \/ Send(mirror_url, fh_headers, "TransportError", 0) /\ FetchEnds("TransportError")
           \/ \E status \in ErrorStatuses :
                 Send(mirror_url, fh_headers, "status", status) /\ FetchEnds("HTTPStatusError")
    /\ UNCHANGED <<fh_url, fh_env, fh_headers, fh_status>>
    /\ UNCHANGED <<ex_vars, ct_vars, kt_vars, ff_vars>>

FetchNext ==
    FetchBuildHeaders \/ FetchFirst \/ FetchTimeoutRetry \/ FetchAlternateRetry \/ FetchMirror

SpecFetch == FetchInit /\ [][FetchNext]_vars

\* Every awaited request ends, in a response or in an exception (the client
\* has a timeout), so a call that can take a step takes it.
SpecFetchFair == FetchInit /\ [][FetchNext]_vars /\ WF_vars(FetchNext)

\* The codings that stand for brotli in an Accept-Encoding value.
AdvertisesBrotli(value) == \E i \in DOMAIN value : value[i] = "br"

\* C19: the Accept-Encoding of DEFAULT_HEADERS does not name brotli, and every
\* request of a call (the original one, the retry after a timeout, the retry
\* with the alternate User-Agent, the one to the mirror) carries it unchanged.
NoBrotliAdvertised ==
    \A i \in DOMAIN fh_sent :
        /\ "AcceptEncoding" \in DOMAIN fh_sent[i].headers
        /\ fh_sent[i].headers["AcceptEncoding"] = <<"gzip", ",", " ", "deflate">>
        /\ ~AdvertisesBrotli(fh_sent[i].headers["AcceptEncoding"])

\* A call has made the original request, the retry with the alternate
\* User-Agent and the request to the mirror.
NoBrotliAdvertisedWitness ==
    /\ fh_pc = "done"
    /\ Len(fh_sent) = 3
    /\ fh_sent[2].headers["UserAgent"] = AlternateUserAgent
    /\ fh_sent[1].headers["UserAgent"] # AlternateUserAgent
    /\ Head(fh_sent[3].url) = "https://r.jina.ai/http://"

\* The requests of a call by what they ask for and what they ended in.
IsMirrorRequest(i) == Head(fh_sent[i].url) = "https://r.jina.ai/http://"
IsOriginalRequest(i) == fh_sent[i] = Request(fh_url, HeadersFor(fh_url))
IsAlternateRetry(i) ==
    /\ fh_sent[i].url = fh_url
    /\ fh_sent[i].headers["UserAgent"] = AlternateUserAgent
    /\ fh_sent[i].headers["UserAgent"] # HeadersFor(fh_url)["UserAgent"]
FailedBlocked(i) == fh_got[i].kind = "status" /\ fh_got[i].status \in {403, 429}

\* A mirror request is the third request, after the original request and the
\* retry with the alternate User-Agent both ended in 403 or 429, for a host
\* ending with mothership.sg or with the flag enabled.
MirrorOnlyWhenBlockedTwice ==
    \A i \in DOMAIN fh_sent :
        IsMirrorRequest(i) =>
            /\ i = 3
            /\ IsOriginalRequest(1) /\ FailedBlocked(1)
            /\ IsAlternateRetry(2) /\ FailedBlocked(2)
            /\ NetlocEndsWith(fh_url, "mothership.sg") \/ MirrorOnBlockEnabled(fh_env)

\* After a read timeout of the original request the call makes one more
\* request, the original one again, and then ends.
OnePlainRetryAfterTimeout ==
    (fh_got # <<>> /\ fh_got[1].kind = "ReadTimeout") =>
        /\ Len(fh_sent) <= 2
        /\ Len(fh_sent) = 1 => fh_pc = "timeout"
        /\ Len(fh_sent) = 2 => fh_pc = "done" /\ fh_sent[2] = fh_sent[1]
        /\ \A i \in DOMAIN fh_sent : ~IsMirrorRequest(i) /\ IsOriginalRequest(i)

\* A call makes at most three requests, and once it has ended it has
\* returned text or raised.
AtMostThreeRequests ==
    /\ Len(fh_sent) <= 3
    /\ Len(fh_got) = Len(fh_sent)
    /\ fh_pc = "done" =>
           fh_result \in {"text", "ValueError", "ReadTimeout", "TransportError", "HTTPStatusError"}
    /\ fh_pc # "done" => fh_result = "none"

\* C21: in fetch_html a mirror request is made only after the original
\* request and the retry with the alternate User-Agent both failed with 403
\* or 429, and only for a host ending with mothership.sg or with the flag
\* NEWSCLI_MIRROR_ON_403 enabled; after a read timeout one plain retry is made
\* and no mirror is tried; every call makes at most three requests and then
\* returns text or raises.
MirrorIsLastResort ==
    /\ [](MirrorOnlyWhenBlockedTwice /\ OnePlainRetryAfterTimeout /\ AtMostThreeRequests)
    /\ <>(fh_pc = "done")

\* A call for a host other than mothership.sg, with the flag enabled, has
\* met 403 and 429 and has ended after the request to the mirror.
MirrorIsLastResortWitness ==
    /\ fh_pc = "done"
    /\ ~NetlocEndsWith(fh_url, "mothership.sg")
    /\ Len(fh_sent) = 3
    /\ IsMirrorRequest(3)
    /\ fh_got[1].status # fh_got[2].status
    /\ fh_result = "text"

(***************************************************************************)
(* fetch_feed (newscli/rss.py)                                             *)
(*                                                                         *)
(* URLs, header values, requests and their outcomes are as in fetch_html.  *)
(* An exception is a one-element sequence naming its class.                *)
(***************************************************************************)

\* headers, as first built
FeedHeaders ==
    [ UserAgent |-> <<"Chrome/120", "X11; Linux x86_64">>,
      Accept |-> <<"application/rss+xml", ",", "*/*">>,
      AcceptLanguage |-> <<"en-SG">>,
      AcceptEncoding |-> <<"gzip", ",", " ", "deflate">>,
      Connection |-> <<"keep-alive">> ]

\* headers, once the referer is added
FeedHeadersFor(url) ==
    IF NetlocEndsWith(url, "mothership.sg")
    THEN ("Referer" :> <<"https://mothership.sg/">>) @@ FeedHeaders
    ELSE IF NetlocEndsWith(url, "theindependent.sg")
         THEN ("Referer" :> <<"https://theindependent.sg/">>) @@ FeedHeaders
         ELSE FeedHeaders

\* range(2)
Attempts == 2

\* "rsshub.app/apnews" in url
UsesRsshub(url) ==
    \E i \in 1 .. Len(url) - 1 : url[i] = "rsshub.app" /\ url[i + 1] = "/apnews"

\* official
OfficialFeed == <<"https://", "apnews.com", "/apf-topnews?output=rss">>

\* The transport exceptions the loop catches.
Retryable == {"ReadTimeout", "ConnectError"}

\* The exception object for what a request ended in.
ExcLost(got) == None

ExcOf(got) == IF got.kind = "status" THEN <<"HTTPStatusError">> ELSE <<got.kind>>

\* What a request can end in: a feed, a page of HTML (by its content type or
\* by its first characters), a read timeout, a connect error, another
\* transport error, or an error status.
FeedSuccesses == {"feed", "html"}

FeedUrlChoices ==
    { <<"https://", "mothership.sg", "/feed">>,
      <<"https://", "theindependent.sg", "/feed">>,
      <<"https://", "rsshub.app", "/apnews">>,
      <<"https://", "example.com", "/rss">> }

FeedInit ==
    /\ ExtractIdle
    /\ CleanIdle
    /\ KittyIdle
    /\ FetchIdle
    /\ ff_pc = "start"
    /\ ff_url \in FeedUrlChoices
    /\ ff_headers = <<>>
    /\ ff_attempt = 0
    /\ ff_last_exc = None
    /\ ff_sent = <<>>
    /\ ff_got = <<>>
    /\ ff_result = None

\* client.get(url, headers=headers) and what it ended in
FeedSend(url, headers, kind, status) ==
    /\ ff_sent' = Append(ff_sent, Request(url, headers))
    /\ ff_got' = Append(ff_got, Got(kind, status))

\* The call ends: it returns the text of a response or raises.
FeedEnds(how) ==
    /\ ff_pc' = "done"
    /\ ff_result' = how

\* The headers, the client, last_exc = None and the first turn of the loop.
FeedBuildHeaders ==
    /\ ff_pc = "start"
    /\ ff_headers' = FeedHeadersFor(ff_url)
    /\ ff_last_exc' = None
    /\ ff_attempt' = 0
    /\ ff_pc' = IF 0 < Attempts THEN "loop" ELSE "after"
    /\ UNCHANGED <<ff_url, ff_sent, ff_got, ff_result>>
    /\ UNCHANGED <<ex_vars, ct_vars, kt_vars, fh_vars>>

\* One turn of the loop: the request, and the handler of what it raised.
FeedAttempt ==
    /\ ff_pc = "loop"
    /\ \/ /\ FeedSend(ff_url, ff_headers, "feed", 0)
          /\ FeedEnds(<<"text">>)
          /\ UNCHANGED <<ff_attempt, ff_last_exc>>
       \/ /\ FeedSend(ff_url, ff_headers, "html", 0)
          /\ FeedEnds(<<"ValueError">>)
          /\ UNCHANGED <<ff_attempt, ff_last_exc>>
       \/ \E kind \in Retryable :
             /\ FeedSend(ff_url, ff_headers, kind, 0)
             /\ ff_last_exc' = ExcOf(Got(kind, 0))
             /\ IF ff_attempt + 1 < Attempts
                THEN ff_attempt' = ff_attempt + 1 /\ ff_pc' = "loop"
                ELSE ff_pc' = "after" /\ UNCHANGED ff_attempt
             /\ UNCHANGED ff_result
       \/ /\ FeedSend(ff_url, ff_headers, "TransportError", 0)
          /\ FeedEnds(ExcOf(Got("TransportError", 0)))
          /\ UNCHANGED <<ff_attempt, ff_last_exc>>
       \/ \E status \in ErrorStatuses :
             /\ FeedSend(ff_url, ff_headers, "status", status)
             /\ ff_last_exc' = ExcOf(Got("status", status))
             /\ ff_pc' = IF status \in BlockedStatuses /\ ff_attempt = 0
                         THEN "alternate" ELSE "after"
             /\ UNCHANGED <<ff_attempt, ff_result>>
    /\ UNCHANGED <<ff_url, ff_headers>>
    /\ UNCHANGED <<ex_vars, ct_vars, kt_vars, fh_vars>>

\* The request with the alternate User-Agent, inside the handler.
FeedAlternate ==
    /\ ff_pc = "alternate"
    /\ LET alt_headers == RetryHeaders(ff_headers)
       IN  \/ \E ok \in FeedSuccesses :
                 FeedSend(ff_url, alt_headers, ok, 0) /\ FeedEnds(<<"text">>)
           \/ \E kind \in Retryable \cup {"TransportError"} :
                 FeedSend(ff_url, alt_headers, kind, 0) /\ FeedEnds(ExcOf(Got(kind, 0)))
           \/ \E status \in ErrorStatuses :
                 /\ FeedSend(ff_url, alt_headers, "status", status)
                 /\ FeedEnds(ExcOf(Got("status", status)))
    /\ UNCHANGED <<ff_url, ff_headers, ff_attempt, ff_last_exc>>
    /\ UNCHANGED <<ex_vars, ct_vars, kt_vars, fh_vars>>

\* After the loop, the request to the official feed.
FeedFallback ==
    /\ ff_pc = "after"
    /\ UsesRsshub(ff_url)
    /\ \/ \E ok \in FeedSuccesses :
             FeedSend(OfficialFeed, ff_headers, ok, 0) /\ FeedEnds(<<"text">>)
       \/ \E kind \in Retryable \cup {"TransportError"} :
             FeedSend(OfficialFeed, ff_headers, kind, 0) /\ FeedEnds(ExcOf(Got(kind, 0)))
       \/ \E status \in ErrorStatuses :
             /\ FeedSend(OfficialFeed, ff_headers, "status", status)
             /\ FeedEnds(ExcOf(Got("status", status)))
    /\ UNCHANGED <<ff_url, ff_headers, ff_attempt, ff_last_exc>>
    /\ UNCHANGED <<ex_vars, ct_vars, kt_vars, fh_vars>>

\* After the loop, assert last_exc is not None and raise last_exc.
FeedRaise ==
    /\ ff_pc = "after"
    /\ ~UsesRsshub(ff_url)
    /\ FeedEnds(IF ff_last_exc = None THEN <<"AssertionError">> ELSE ff_last_exc)
    /\ UNCHANGED <<ff_url, ff_headers, ff_attempt, ff_last_exc, ff_sent, ff_got>>
    /\ UNCHANGED <<ex_vars, ct_vars, kt_vars, fh_vars>>

FeedNext ==
    FeedBuildHeaders \/ FeedAttempt \/ FeedAlternate \/ FeedFallback \/ FeedRaise

SpecFeed == FeedInit /\ [][FeedNext]_vars

\* The requests of the loop: those for the URL with the headers as built.
LoopRequests == {i \in DOMAIN ff_sent : ff_sent[i] = Request(ff_url, ff_headers)}

\* The exceptions a handler of the loop stores in last_exc.
CaughtExceptions == {<<"ReadTimeout">>, <<"ConnectError">>, <<"HTTPStatusError">>}

\* The class of the exception the last request raised.
LastRaised ==
    LET last == ff_got[Len(ff_got)]
    IN  IF last.kind = "status" THEN <<"HTTPStatusError">> ELSE <<last.kind>>

\* C22: in fetch_feed, whenever control is past the loop, last_exc holds the
\* exception caught from the last request, so the call ends by returning
\* text or by raising a request exception or a ValueError, never an
\* AssertionError; the loop makes at most 2 requests and the call at most 3.
LastExcSetAfterLoop ==
    /\ ff_pc = "after" =>
           /\ ff_got # <<>>
           /\ ff_last_exc \in CaughtExceptions
           /\ ff_last_exc = LastRaised
    /\ ff_pc = "done" =>
           ff_result \in CaughtExceptions
                         \cup {<<"text">>, <<"ValueError">>, <<"TransportError">>}
    /\ ff_pc # "done" => ff_result = None
    /\ Cardinality(LoopRequests) <= 2
    /\ Len(ff_sent) <= 3

\* A call whose first request timed out and whose second met an error status
\* has passed the assertion and raised the HTTPStatusError.
LastExcSetAfterLoopWitness ==
    /\ ff_pc = "done"
    /\ ~UsesRsshub(ff_url)
    /\ Len(ff_sent) = 2
    /\ ff_got[1].kind = "ReadTimeout"
    /\ ff_got[2].kind = "status" /\ ff_got[2].status \in BlockedStatuses
    /\ ff_result = <<"HTTPStatusError">>
    /\ ff_result = ff_last_exc

(***************************************************************************)
(* Properties of extract_readable_text                                     *)
(***************************************************************************)

Returned == pc = "done"
OnPlainPath == ~html.tags /\ LooksPlain(StripControl(html.chars))
ReturnedPlain == Returned /\ OnPlainPath
ReturnedHtml == Returned /\ ~OnPlainPath

\* The h1 elements of the sanitized document that have text.
NonEmptyH1s == LET HasText(h) == GetText(h, <<>>) # <<>> IN SelectSeq(FindAll(soup, {"h1"}), HasText)

\* The stripped text of <title>, empty when there is none.
TitleTagText ==
    LET t == Find(soup, "title")
    IN  IF t # NoNode /\ Truthy(StringOf(t)) THEN Strip(StringOf(t)) ELSE <<>>

\* C1: extract_readable_text never raises, and for the empty string it
\* returns title "(untitled)", byline None, text "" and images [].
NeverRaises ==
    /\ pc # "raised"
    /\ (Returned /\ html = PlainInput(<<>>)) =>
           result = ArticleContent(Untitled, None, <<>>, <<>>)

\* C2: with a non-empty og:title and a non-empty h1 of another text, the
\* returned title is the og:title content.
OgTitleWins ==
    (ReturnedHtml /\ TitleFromOg(soup) # <<>>
        /\ \E i \in DOMAIN NonEmptyH1s : GetText(NonEmptyH1s[i], <<>>) # TitleFromOg(soup))
    => result.title = TitleFromOg(soup)

\* C3: when some h1 of the sanitized document has text, or the og:title has,
\* and that text is not also the <title> text, the returned title is not the
\* <title> text.
H1OverridesTitleTag ==
    ReturnedHtml =>
        /\ (NonEmptyH1s # <<>>
               /\ \A i \in DOMAIN NonEmptyH1s : GetText(NonEmptyH1s[i], <<>>) # TitleTagText)
           => result.title # TitleTagText
        /\ (TitleFromOg(soup) # <<>> /\ TitleFromOg(soup) # TitleTagText)
           => result.title # TitleTagText

\* C4: the returned title is never empty, and it is "(untitled)" when no
\* title source has text.
TitleNeverEmpty ==
    /\ Returned => result.title # <<>>
    /\ (ReturnedHtml /\ TitleFromOg(soup) = <<>> /\ NonEmptyH1s = <<>> /\ TitleTagText = <<>>)
           => result.title = Untitled
    /\ (ReturnedPlain /\ FirstTitleLine(PlainLines(StripControl(html.chars)), 1) = 0)
           => result.title = Untitled

\* A page whose og:title, h1 and <title> are all there and all blank has
\* been given the sentinel title.
TitleNeverEmptyWitness ==
    /\ ReturnedHtml
    /\ FindMeta(soup, "og:title", "og:title") # NoNode
    /\ Find(soup, "h1") # NoNode
    /\ Find(soup, "title") # NoNode
    /\ title = <<>>
    /\ result.title = Untitled

\* A string the text normalizer leaves alone: no three newlines in a row, no
\* blank before a newline or at the end, no whitespace at either end.
Normalized(s) ==
    /\ \A i \in 1..(Len(s) - 2) : ~(s[i] = "\n" /\ s[i + 1] = "\n" /\ s[i + 2] = "\n")
    /\ \A i \in DOMAIN s : s[i] \in Horizontal => (i < Len(s) /\ s[i + 1] # "\n")
    /\ s # <<>> => (s[1] \notin Whitespace /\ s[Len(s)] \notin Whitespace)

\* C5: the returned text is normalized on every path, the thin-content
\* fallback included.
TextIsNormalized == Returned => Normalized(result.text)

\* C6: the images list has at most five entries, all distinct.
ImagesCappedAndDistinct ==
    Returned =>
        /\ Len(result.images) <= MaxImages
        /\ \A i, j \in DOMAIN result.images : i # j => result.images[i] # result.images[j]

\* A page with more than five distinct image URLs, two of which are written
\* differently and normalize to the same URL, has returned five images.
ImagesCappedAndDistinctWitness ==
    /\ ReturnedHtml
    /\ Len(result.images) = MaxImages
    /\ LET raws == RawImageUrls(soup, NodeAt(soup, container)) IN
       /\ Cardinality({NormalizeImageUrl(raws[i], base_url) : i \in DOMAIN raws} \ {None})
              > MaxImages
       /\ \E i, j \in DOMAIN raws :
              /\ raws[i] # raws[j]
              /\ NormalizeImageUrl(raws[i], base_url) = NormalizeImageUrl(raws[j], base_url)
              /\ NormalizeImageUrl(raws[i], base_url) # None

\* C7: no returned image URL is a data: URI, has an .svg or .ico extension,
\* contains whitespace or matches the share-button pattern.
NoRejectedImageUrl ==
    Returned =>
        \A i \in DOMAIN result.images :
            LET u == result.images[i] IN
            /\ Head(u) \notin DataSchemes
            /\ ~HasExtension(u, VectorExts)
            /\ ~HasWhitespace(u)
            /\ ~MatchesSkip(u)

\* The lines of the sanitized plain text and the lines of the returned text.
InputLines == PlainLines(StripControl(html.chars))
TextLines == SplitOn(result.text, {"\n"})

\* The metadata markers as the mirror writes them.
ExactMarkers == {"URL Source", "Published Time", "Markdown Content"}

\* A marker directly followed by a colon, at position i of s.
MarkerAt(s, i) == i < Len(s) /\ s[i] \in ExactMarkers /\ s[i + 1] = ":"

\* C8, read literally: on the plain-text path the byline is None and no marker
\* followed by a colon occurs anywhere in the returned text.
NoMarkerAnywhere ==
    ReturnedPlain =>
        /\ result.byline = None
        /\ \A i \in DOMAIN result.text : ~MarkerAt(result.text, i)

\* C8: on the plain-text path the byline is None and no line of the returned
\* text starts, after optional blanks, with a marker in any letter case
\* followed by optional blanks and a colon.
NoMetadataLine ==
    ReturnedPlain =>
        /\ result.byline = None
        /\ \A i \in DOMAIN TextLines : ~IsMetadataLine(TextLines[i])

\* A plain text with a metadata line and with a marker in the middle of
\* another line: the first is gone from the returned text, the second is
\* still there.
NoMetadataLineWitness ==
    /\ ReturnedPlain
    /\ \E i \in DOMAIN InputLines : IsMetadataLine(InputLines[i])
    /\ \E i \in DOMAIN result.text : i > 1 /\ MarkerAt(result.text, i)

\* The title lines among the first TitleScanLines lines.
ScannedTitleLines ==
    {i \in DOMAIN InputLines : i <= TitleScanLines /\ TitleMatch(InputLines[i]) # NoMatch}

\* The input lines that belong to the body: not the first scanned title
\* line, not a metadata line, not blank; in input order.
BodyLines ==
    LET Dropped(i) == \/ (ScannedTitleLines # {} /\ i = Least(ScannedTitleLines))
                      \/ IsMetadataLine(InputLines[i])
        marked == [i \in DOMAIN InputLines |-> IF Dropped(i) THEN <<>> ELSE InputLines[i]]
        NonBlank(ln) == ln # <<>>
    IN  SelectSeq(marked, NonBlank)

\* C9: on the plain-text path the title is the trimmed value of the first
\* title line among the first eight lines, "(untitled)" when there is none;
\* the non-blank lines of the text are the input lines other than that title
\* line and the metadata lines, in input order, later title lines included;
\* and the text never has more than one blank line in a row.
PlainTitleAndBody ==
    ReturnedPlain =>
        /\ result.title = IF ScannedTitleLines = {} THEN Untitled
                          ELSE Strip(TitleMatch(InputLines[Least(ScannedTitleLines)]))
        /\ LET NonBlank(ln) == ln # <<>>
               shown == SelectSeq(TextLines, NonBlank)
           IN  /\ Len(shown) = Len(BodyLines)
               /\ \A i \in DOMAIN shown :
                      shown[i] = IF i = 1 THEN LStrip(BodyLines[i]) ELSE BodyLines[i]
        /\ \A i \in 1..(Len(result.text) - 2) :
               ~(result.text[i] = "\n" /\ result.text[i + 1] = "\n"
                    /\ result.text[i + 2] = "\n")

\* A plain text with two title lines among its first eight lines: the first
\* gives the title, the second is still in the text.
PlainTitleAndBodyWitness ==
    /\ ReturnedPlain
    /\ Cardinality(ScannedTitleLines) = 2
    /\ result.title # Untitled
    /\ \E i \in DOMAIN TextLines : TitleMatch(TextLines[i]) # NoMatch

\* The program is past the choice of the container.
ContainerChosen == pc \in {"images", "byline", "blocks", "thin", "done", "raised"}

\* The candidate score of the element at a position of the sanitized document.
ScoreAt(i) == CandidateScore(NodeAt(soup, i))

\* C11: when some article or main element of the sanitized document scores
\* at least 5, the chosen container is an article or main element that scores
\* at least 5.
SemanticContainerChosen ==
    (ContainerChosen
        /\ \E i \in PositionsOf(soup, {"article", "main"}) :
               ScoreAtLeast(ScoreAt(i), SemanticMinScore))
    => /\ container \in PositionsOf(soup, {"article", "main"})
       /\ ScoreAtLeast(ScoreAt(container), SemanticMinScore)

\* The element the semantic shortcut looks at (0: none), and whether the
\* shortcut applies.
SemanticElement ==
    IF PositionsOf(soup, {"article"}) # {} THEN Least(PositionsOf(soup, {"article"}))
    ELSE IF PositionsOf(soup, {"main"}) # {} THEN Least(PositionsOf(soup, {"main"}))
    ELSE 0
ShortcutApplies ==
    SemanticElement # 0 /\ ScoreAtLeast(ScoreAt(SemanticElement), SemanticMinScore)

\* The generic candidates, and those among them no other one outscores.
Candidates == PositionsOf(soup, {"article", "main", "section", "div"})
TopCandidates == {i \in Candidates : \A j \in Candidates : ~ScoreGreater(ScoreAt(j), ScoreAt(i))}

\* C12: without the semantic shortcut the container is the earliest of the
\* top-scoring article/main/section/div elements when their score is at least
\* 3, and otherwise <body>, or the document when it has no body.
BestCandidateOrBody ==
    (ContainerChosen /\ ~ShortcutApplies) =>
        IF \E i \in TopCandidates : ScoreAtLeast(ScoreAt(i), GenericMinScore)
        THEN container \in TopCandidates /\ \A i \in TopCandidates : container <= i
        ELSE IF PositionsOf(soup, {"body"}) # {}
             THEN Tag(NodeAt(soup, container)) = "body"
                  /\ \A i \in PositionsOf(soup, {"body"}) : container <= i
             ELSE container = 0

\* Two elements share the top score, which is at least 3, the shortcut does
\* not apply, and the earlier of the two is the container.
BestCandidateOrBodyWitness ==
    /\ ContainerChosen
    /\ ~ShortcutApplies
    /\ Cardinality(TopCandidates) >= 2
    /\ ScoreAtLeast(ScoreAt(container), GenericMinScore)
    /\ container \in TopCandidates
    /\ \E i \in TopCandidates : container < i

\* The text of the links of a node, and nodes whose text is all link text
\* or has no link text.
LinkText(node) ==
    LET anchors == FindAll(node, {"a"})
    IN  Join([i \in DOMAIN anchors |-> GetText(anchors[i], <<" ">>)], <<" ">>)
LinkOnly(node) == GetText(node, <<" ">>) # <<>> /\ LinkText(node) = GetText(node, <<" ">>)
LinkFree(node) == GetText(node, <<" ">>) # <<>> /\ LinkText(node) = <<>>

\* C13: a candidate whose text is all link text scores a tenth of its
\* unscaled score, and never more than a candidate of the same name, hints
\* and paragraphs whose text has no link text.
LinkOnlyNeverOutscores ==
    ContainerChosen =>
        \A i \in Candidates :
            LinkOnly(NodeAt(soup, i)) =>
                /\ 10 * ScoreAt(i).num = UnscaledScore(NodeAt(soup, i)) * ScoreAt(i).den
                /\ \A j \in Candidates :
                       (/\ LinkFree(NodeAt(soup, j))
                        /\ Tag(NodeAt(soup, j)) = Tag(NodeAt(soup, i))
                        /\ AttrsOf(NodeAt(soup, j)) = AttrsOf(NodeAt(soup, i))
                        /\ ParagraphLengths(NodeAt(soup, j)) = ParagraphLengths(NodeAt(soup, i)))
                       => ~ScoreGreater(ScoreAt(i), ScoreAt(j))

\* The chosen container, and the texts of its h2/h3/p/li/blockquote
\* elements in document order.
ChosenContainer == NodeAt(soup, container)
BlockElements == FindAll(ChosenContainer, {"p", "h2", "h3", "li", "blockquote"})

\* An element of the container is kept as a block.
IsKept(el) ==
    IF Tag(el) \in {"h2", "h3"} THEN GetText(el, <<" ">>) # <<>>
    ELSE StrLen(GetText(el, <<" ">>)) >= MinBlockLen

\* The container has visible text.
HasVisibleText(node) ==
    \E i \in DOMAIN Descendants(node) :
        /\ Tag(Descendants(node)[i]) = "#text"
        /\ \E k \in DOMAIN TextOf(Descendants(node)[i]) :
               TextOf(Descendants(node)[i])[k] \notin Whitespace

\* C14: the assembled body is the normalized join, by one blank line, of the
\* kept blocks (every non-empty h2/h3, every p/li/blockquote of at least 20
\* characters, in document order) when there are at least three, and the
\* normalized text of the whole container otherwise; a container with visible
\* text never gives an empty body.
BodyFromBlocks ==
    /\ pc = "thin" =>
           LET kept == SelectSeq(BlockElements, IsKept)
               texts == [i \in DOMAIN kept |-> GetText(kept[i], <<" ">>)]
           IN  /\ Len(kept) >= MinBlocks => text = CleanText(Join(texts, <<"\n", "\n">>))
               /\ Len(kept) < MinBlocks => text = CleanText(GetText(ChosenContainer, <<"\n">>))
               /\ HasVisibleText(ChosenContainer) => text # <<>>
    /\ (ReturnedHtml /\ HasVisibleText(ChosenContainer)) => result.text # <<>>

\* Three blocks are kept, a heading shorter than 20 characters among them,
\* and a paragraph shorter than 20 characters is left out of the body.
BodyFromBlocksWitness ==
    /\ pc = "thin"
    /\ Len(SelectSeq(BlockElements, IsKept)) = MinBlocks
    /\ \E i \in DOMAIN BlockElements :
           /\ Tag(BlockElements[i]) = "h2"
           /\ IsKept(BlockElements[i])
           /\ StrLen(GetText(BlockElements[i], <<" ">>)) < MinBlockLen
    /\ \E i \in DOMAIN BlockElements :
           Tag(BlockElements[i]) = "p" /\ ~IsKept(BlockElements[i])
    /\ \A i \in DOMAIN text : text[i] # "a"

\* The img elements of the chosen container, and those that declare a width
\* or a height below 120.
ContainerImgs == FindAll(ChosenContainer, {"img"})
DeclaresSmallSide(img) ==
    \/ Get(img, "width") \in Numerals /\ IntOf(Get(img, "width")) < MinImageSide
    \/ Get(img, "height") \in Numerals /\ IntOf(Get(img, "height")) < MinImageSide

\* The URLs the other sources give: the metas and links of the document and
\* the img elements of the container that declare no small side.
UrlsOfOtherSources ==
    LET heads == FindAll(soup, {"meta", "link"})
        large == SelectSeq(ContainerImgs, LAMBDA img : ~DeclaresSmallSide(img))
    IN  {NormalizeImageUrl(Get(heads[i], "content"), base_url) : i \in DOMAIN heads}
        \cup {NormalizeImageUrl(Get(heads[i], "href"), base_url) : i \in DOMAIN heads}
        \cup {NormalizeImageUrl(PickImgSource(large[i]), base_url) : i \in DOMAIN large}

\* C15: an img of the container that declares a width or a height below 120
\* gives no entry of the images list.
SmallImagesSkipped ==
    ReturnedHtml =>
        \A i \in DOMAIN ContainerImgs :
            (DeclaresSmallSide(ContainerImgs[i]) /\ Truthy(PickImgSource(ContainerImgs[i])))
            => LET u == NormalizeImageUrl(PickImgSource(ContainerImgs[i]), base_url)
               IN  u \in Range(result.images) => u \in UrlsOfOtherSources

\* The accepted URLs of the four sources (1: og:image metas, 2: twitter:image
\* metas, 3: the image_src link, 4: the img elements of the container), each
\* in the order the source gives them.
AcceptedSources ==
    LET from == ImageSources(soup, ChosenContainer)
        Norms(raws) == [i \in DOMAIN raws |-> NormalizeImageUrl(raws[i], base_url)]
    IN  [k \in 1..4 |-> SelectSeq(Norms(from[k]), Truthy)]

\* The first of the sources acc that gives u, and the first place of u in it.
SourceOf(acc, u) == Least({k \in 1..4 : u \in Range(acc[k])})
PlaceOf(acc, u) ==
    LET from == acc[SourceOf(acc, u)] IN Least({i \in DOMAIN from : from[i] = u})

\* v is discovered before u.
Before(acc, v, u) ==
    \/ SourceOf(acc, v) < SourceOf(acc, u)
    \/ SourceOf(acc, v) = SourceOf(acc, u) /\ PlaceOf(acc, v) < PlaceOf(acc, u)

\* C16: the images are accepted URLs of the four sources, listed in the order
\* of their discovery (og:image metas, twitter:image metas, image_src link,
\* img elements of the container), and an accepted URL is listed exactly when
\* fewer than five distinct accepted URLs are discovered before it.
ImagesInDiscoveryOrder ==
    ReturnedHtml =>
        LET acc == AcceptedSources
            all == UNION {Range(acc[k]) : k \in 1..4}
        IN  /\ Range(result.images) \subseteq all
            /\ \A i, j \in DOMAIN result.images :
                   i < j => Before(acc, result.images[i], result.images[j])
            /\ \A u \in all :
                   u \in Range(result.images)
                       <=> Cardinality({v \in all : Before(acc, v, u)}) < MaxImages

\* All four sources give a URL of the list, the og:image meta stands after
\* the twitter:image meta in the document, and an accepted img of the
\* container is cut off by the cap.
ImagesInDiscoveryOrderWitness ==
    /\ ReturnedHtml
    /\ Len(result.images) = MaxImages
    /\ {SourceOf(AcceptedSources, result.images[i]) : i \in DOMAIN result.images} = 1..4
    /\ SourceOf(AcceptedSources, result.images[1]) = 1
    /\ \E i, j \in DOMAIN Descendants(soup) :
           /\ i < j
           /\ Get(Descendants(soup)[i], "name") = <<"twitter:image">>
           /\ Lower(OrEmpty(Get(Descendants(soup)[j], "property"))) = <<"og:image">>
    /\ \E u \in Range(AcceptedSources[4]) : u \notin Range(result.images)

\* The elements below a node whose class has one of the byline words, in
\* document order.
BylineElements(node) ==
    LET HasBylineClass(n) ==
            /\ Get(n, "class") # None
            /\ \E w \in BylineWords : w \in Range(Get(n, "class"))
    IN  SelectSeq(Descendants(node), HasBylineClass)

\* C17: the byline is the text of the first byline element of the container,
\* or of the first one of the document when the container has none; a byline
\* without text is None, and a byline that is not None has text other than
\* whitespace.
BylineFromContainerFirst ==
    /\ ReturnedHtml =>
           LET inside == BylineElements(ChosenContainer)
               anywhere == BylineElements(soup)
               found == IF inside # <<>> THEN inside ELSE anywhere
           IN  IF found = <<>> \/ GetText(found[1], <<" ">>) = <<>>
               THEN result.byline = None
               ELSE result.byline = GetText(found[1], <<" ">>)
    /\ (Returned /\ result.byline # None) => Strip(result.byline) # <<>>
    /\ ReturnedPlain => result.byline = None

\* The document has a byline element with text before the container and the
\* container has another one: the byline is the text of the one inside.
BylineFromContainerFirstWitness ==
    /\ ReturnedHtml
    /\ BylineElements(ChosenContainer) # <<>>
    /\ BylineElements(soup)[1] # BylineElements(ChosenContainer)[1]
    /\ GetText(BylineElements(soup)[1], <<" ">>) # <<>>
    /\ result.byline # None
    /\ result.byline = GetText(BylineElements(ChosenContainer)[1], <<" ">>)
    /\ result.byline # GetText(BylineElements(soup)[1], <<" ">>)

\* The symbols of the strings and of the attribute values of a sequence of
\* nodes, with and without what stands inside comments and boilerplate
\* elements.
RECURSIVE SymbolsOfAll(_, _)
SymbolsOfAll(nodes, withJunk) ==
    IF nodes = <<>> THEN {}
    ELSE LET n == Head(nodes)
             IsJunk == Tag(n) = "#comment" \/ Tag(n) \in BoilerplateTags
             own == IF Tag(n) \in StringNodes THEN Range(TextOf(n))
                    ELSE UNION {Range(a[2]) : a \in AttrsOf(n)}
                         \cup SymbolsOfAll(Kids(n), withJunk)
         IN  (IF IsJunk /\ ~withJunk THEN {} ELSE own) \cup SymbolsOfAll(Tail(nodes), withJunk)

\* The symbols that occur in the parsed document inside comments and
\* boilerplate elements only.
JunkOnlySymbols ==
    SymbolsOfAll(<<ParseTree(html)>>, TRUE) \ SymbolsOfAll(<<ParseTree(html)>>, FALSE)

\* The symbols of the returned title, byline, text and images.
ResultSymbols ==
    Range(result.title) \cup Range(result.text)
    \cup (IF result.byline = None THEN {} ELSE Range(result.byline))
    \cup UNION {Range(result.images[i]) : i \in DOMAIN result.images}

\* C20: nothing that stands only inside a comment or inside a script, style,
\* noscript, header, footer, nav, aside, form or iframe element is part of the
\* returned title, byline, text or images.
BoilerplateNeverContributes ==
    ReturnedHtml => ResultSymbols \cap JunkOnlySymbols = {}

\* A page whose only h1, only byline element and only img stand inside a
\* boilerplate element, with a long paragraph next to them: the title is the
\* sentinel, the byline None, the images empty.
BoilerplateNeverContributesWitness ==
    /\ ReturnedHtml
    /\ {"X", "y", "Z", "q"} \subseteq JunkOnlySymbols
    /\ \E i \in DOMAIN Descendants(ParseTree(html)) :
           Tag(Descendants(ParseTree(html))[i]) = "header"
    /\ result.title = Untitled
    /\ result.byline = None
    /\ result.images = <<>>
    /\ result.text # <<>>

====
